---------------------------- MODULE Spec2Model ----------------------------
(***************************************************************************)
(* A state-machine model of the AlephOS kernel core: the physical frame    *)
(* allocator (mm/pmm.c), the page-table manager (mm/vmm.c), the kernel     *)
(* heap (mm/heap.c), the process table and round-robin scheduler           *)
(* (core/process.c), the file-descriptor table and system calls            *)
(* (core/syscalls.c) and the tty pipe (core/drivers/tty/pipe.c).           *)
(*                                                                         *)
(* Addresses are byte addresses.  Sizes that the source fixes at values    *)
(* too large to enumerate (bits per bitmap word, pages covered by the      *)
(* bitmap, slots of the descriptor table, entries per page table, pipe     *)
(* ring size) are scaled down; the scaled values are named definitions.    *)
(***************************************************************************)
EXTENDS Integers, Sequences, FiniteSets, TLC

NULL == 0

(***************************************************************************)
(* Program constants.                                                      *)
(***************************************************************************)
PAGE_SIZE == 4096
BITMAP_ENTRY_BYTES == 8

(***************************************************************************)
(* Scaled sizes.                                                           *)
(***************************************************************************)
\* bits in one bitmap word (BITS_PER_ENTRY is 64 in pmm.c)
BITS_PER_ENTRY == 4
\* words of the bitmap (MAX_MEMORY_GB * 2^30 / PAGE_SIZE / 64 = 16384 in pmm.c)
BitmapWords == 4
\* largest count handed to pmm_alloc_pages / pmm_free_pages
MaxCount == 3
\* entries of one page table (512 in vmm.c); a virtual page number has four
\* indices of this range
TableEntries == 4
\* slots of the descriptor table (MAX_FDS is 256 in syscalls.c)
MAX_FDS == 3
\* sockets of the pool (NET_MAX_SOCKETS is 128 in net.h)
NET_MAX_SOCKETS == 2
\* processes that may exist (MAX_PROCESSES is 256 in process.c)
MAX_PROCESSES == 2
\* the time slice process_create gives a process (100 in process.c)
TimeSlice == 2
\* bytes of the ring of a sys_pipe pipe (buffer_size is 4096 in syscalls.c)
SysPipeSize == 2
\* log2 of the ring size of a tty pipe (PIPE_BUFFER_SIZE is 4096 = 2^12 in pipe.h)
PipeSizeLog2 == 1
\* scheduler_tick is followed while time_used < time_slice + MaxOverrun
MaxOverrun == 1
\* process_create is followed while next_pid <= MaxPid
MaxPid == 3
\* largest byte count handed to sys_read / sys_write
MaxIo == 2
\* sys_dup, sys_dup2 and sys_fork are followed while every refcount < MaxRef
MaxRef == 3
\* system calls followed from the initial state of the descriptor table
MaxCalls == 4
\* pointers a caller of heap_alloc holds at a time
MaxLive == 2
\* smallest and largest request of an alloc/free pair
MinSize == 8
MaxSize == 4096
\* scheduler_tick calls followed while a trace is kept
TickLimit == 201
\* bits of a size_t and of a pointer (64 in the build)
SizeBits == 20
\* processors that run kernel code at a time (MAX_CPUS is 256 in smp.h)
MAX_CPUS == 2

\* pages covered by the bitmap: max_addr / PAGE_SIZE, a whole number of words
TotalPages == BitmapWords * BITS_PER_ENTRY

VARIABLES
    bitmap,        \* pmm.c: bitmap, page index -> bit (TRUE = in use)
    bitmap_size,   \* pmm.c: number of bitmap words
    total_pages,   \* pmm.c
    free_pages,    \* pmm.c
    tables,        \* vmm.c: the page tables in memory, physical address -> page_table_t
    current_pml4,  \* vmm.c: the root table (its physical address)
    mapped,        \* history: virt -> phys of the successful vmm_map_page calls still in force
    next_mmap_addr,    \* syscalls.c: where the next sys_mmap without an address goes
    program_break,     \* syscalls.c: the end of the data segment sys_brk keeps (NULL: not set)
    initial_break,     \* history: the first program break sys_brk set (NULL: none yet)
    mem,           \* the objects malloc() placed in page frames, address -> record
    fd_table,      \* syscalls.c: fd_table, slot -> address of a file_descriptor_t or NULL
    socket_pool,   \* net.c: socket_pool, index -> net_socket
    current_process,   \* process.c
    process_list,      \* process.c
    next_pid,          \* process.c
    process_count,     \* process.c
    ready_queue_head,  \* process.c
    ready_queue_tail,  \* process.c
    ticks,         \* history: scheduler_tick calls counted since the trace began (-1: no trace)
    lineage,       \* history: who forked whom and who opened which slot, while that is recorded
    switches,      \* history: the processes that were made current, in order, while tracing
    pipe,          \* the pipe_t of drivers/tty/pipe.c the caller holds (its address or NULL)
    heap_start,        \* heap.c: the first heap_block (its address or NULL)
    heap_blocks,       \* heap.c: the block headers in heap memory, address -> heap_block
    heap_statistics,   \* heap.c
    held,          \* the pointers heap_alloc returned that were not yet freed
    budget,        \* system calls still followed from here (-1: no limit)
    halted,        \* the CPU sits in a hlt loop with interrupts off that it never leaves
    acpi,          \* acpi.c: the firmware's tables and the statics rsdt, xsdt, madt, acpi_initialized
    calls,         \* calls in progress: for each CPU or interrupted path, its position and locals
    panic,         \* the kernel ran into undefined behaviour (wild pointer, endless loop)
    ret            \* the last operation and what it returned

pmm_vars == <<bitmap, bitmap_size, total_pages, free_pages>>
brk_vars == <<program_break, initial_break>>
vmm_vars == <<tables, current_pml4, mapped, next_mmap_addr, brk_vars>>
proc_vars == <<current_process, process_list, next_pid, process_count,
               ready_queue_head, ready_queue_tail>>
fd_vars == <<fd_table, socket_pool>>
hist_vars == <<ticks, switches, lineage>>
tty_vars == <<pipe>>
heap_vars == <<heap_start, heap_blocks, heap_statistics, held>>
other_vars == <<hist_vars, acpi, tty_vars, heap_vars, budget, halted, calls>>
sys_frame == <<vmm_vars, hist_vars, acpi, tty_vars, heap_vars, halted, calls>>
vars ==
    <<pmm_vars, vmm_vars, mem, fd_vars, proc_vars, hist_vars, acpi, tty_vars, heap_vars, budget,
      halted, calls, panic, ret>>

\* Nothing recorded: no fork, no open.
NoLineage == [forked |-> << >>, opened |-> << >>]

Min(S) == CHOOSE x \in S : \A y \in S : x <= y

\* Body at the value of e: the statement that computes e runs once, and what
\* follows it works on the result.
Bind(e, Body(_)) == CHOOSE y \in {Body(x) : x \in {e}} : TRUE
Ret(op, val) == [op |-> op, val |-> val, out |-> << >>]

\* A return value together with what the call stored through a pointer argument.
RetOut(op, val, out) == [op |-> op, val |-> val, out |-> out]

(***************************************************************************)
(* Physical memory manager, mm/pmm.c.  The operators below work on a       *)
(* record pm = [bitmap, bitmap_size, total_pages, free_pages] so that the  *)
(* callers of the allocator (malloc, create_page_table, expand_heap,       *)
(* process_create) can chain them.                                         *)
(***************************************************************************)
PmmState == [bitmap |-> bitmap, bitmap_size |-> bitmap_size,
             total_pages |-> total_pages, free_pages |-> free_pages]

SetPmm(pm) ==
    /\ bitmap' = pm.bitmap
    /\ bitmap_size' = pm.bitmap_size
    /\ total_pages' = pm.total_pages
    /\ free_pages' = pm.free_pages

BitmapBits == 0 .. (((TotalPages + BITS_PER_ENTRY - 1) \div BITS_PER_ENTRY) * BITS_PER_ENTRY - 1)

bitmap_set(bm, page) == [bm EXCEPT ![page] = TRUE]

bitmap_clear(bm, page) == [bm EXCEPT ![page] = FALSE]

bitmap_test(bm, page) == bm[page]

\* A memory-map entry of the bootloader.
MemEntry(usable, base, length) == [usable |-> usable, base |-> base, length |-> length]

\* pmm_init, first loop: the index of the first usable entry that can hold
\* the bitmap (0 when there is none).
BitmapEntryIndex(memmap, required_size) ==
    LET ok == {i \in 1..Len(memmap) : memmap[i].usable /\ memmap[i].length >= required_size}
    IN IF ok = {} THEN 0 ELSE Min(ok)

\* pmm_init, first loop: the memory map after the bitmap was carved out of it.
CarveBitmap(memmap, required_size) ==
    LET k == BitmapEntryIndex(memmap, required_size)
    IN [i \in 1..Len(memmap) |->
          IF i = k
          THEN MemEntry(TRUE, memmap[i].base + required_size, memmap[i].length - required_size)
          ELSE memmap[i]]

\* pmm_init, inner loop of the second loop: bitmap_clear(page); free_pages++
\* for page = from .. to-1.
RECURSIVE ClearRange(_, _, _)
ClearRange(pm, from, to) ==
    IF from >= to THEN pm
    ELSE ClearRange([pm EXCEPT !.bitmap = bitmap_clear(pm.bitmap, from),
                               !.free_pages = pm.free_pages + 1], from + 1, to)

\* pmm_init, second loop over the entries i .. Len(memmap).
RECURSIVE MarkUsable(_, _, _)
MarkUsable(pm, memmap, i) ==
    IF i > Len(memmap) THEN pm
    ELSE LET e == memmap[i]
             start_page == (e.base + PAGE_SIZE - 1) \div PAGE_SIZE
             end_page0 == e.length \div PAGE_SIZE
             end_page == IF end_page0 > pm.total_pages THEN pm.total_pages ELSE end_page0
         IN IF ~e.usable \/ start_page >= pm.total_pages
            THEN MarkUsable(pm, memmap, i + 1)
            ELSE MarkUsable(ClearRange(pm, start_page, end_page), memmap, i + 1)

PmmInit(memmap) ==
    LET tp == TotalPages
        bs == (tp + BITS_PER_ENTRY - 1) \div BITS_PER_ENTRY
        required_size == bs * BITMAP_ENTRY_BYTES
        pm0 == [bitmap |-> [p \in BitmapBits |-> TRUE], bitmap_size |-> bs,
                total_pages |-> tp, free_pages |-> 0]
    IN MarkUsable(pm0, CarveBitmap(memmap, required_size), 1)

\* The free pages the scan of pmm_alloc_page can see: entries 1 .. bitmap_size-1.
ScanPages(pm) == {p \in BitmapBits : p >= BITS_PER_ENTRY /\ p < pm.bitmap_size * BITS_PER_ENTRY}

\* pmm_alloc_page whose scan starts at entry 0 of the bitmap.
PmmAllocPageLow(pm) ==
    LET clear == {p \in BitmapBits : p < pm.bitmap_size * BITS_PER_ENTRY
                                        /\ ~bitmap_test(pm.bitmap, p)}
        page == Min(clear)
    IN IF pm.free_pages = 0 \/ clear = {} THEN [pm |-> pm, addr |-> NULL]
       ELSE IF page >= pm.total_pages THEN [pm |-> pm, addr |-> NULL]
       ELSE [pm |-> [pm EXCEPT !.bitmap = bitmap_set(pm.bitmap, page),
                               !.free_pages = pm.free_pages - 1],
             addr |-> page * PAGE_SIZE]

\* pmm_alloc_page: [pm |-> the state after, addr |-> the address returned].
PmmAllocPage(pm) ==
    LET clear == {p \in ScanPages(pm) : ~bitmap_test(pm.bitmap, p)}
        page == Min(clear)
    IN IF pm.free_pages = 0 \/ clear = {} THEN [pm |-> pm, addr |-> NULL]
       ELSE IF page >= pm.total_pages THEN [pm |-> pm, addr |-> NULL]
       ELSE [pm |-> [pm EXCEPT !.bitmap = bitmap_set(pm.bitmap, page),
                               !.free_pages = pm.free_pages - 1],
             addr |-> page * PAGE_SIZE]

RECURSIVE SetRange(_, _, _)
SetRange(bm, from, n) ==
    IF n = 0 THEN bm ELSE SetRange(bitmap_set(bm, from), from + 1, n - 1)

\* pmm_alloc_pages that takes count off free_pages before it looks for a run.
PmmAllocPagesCharged(pm, count) ==
    IF count = 0 THEN [pm |-> pm, addr |-> NULL]
    ELSE LET runs == {s \in ScanPages(pm) :
                        /\ s + count - 1 < pm.total_pages
                        /\ (s \div BITS_PER_ENTRY) = ((s + count - 1) \div BITS_PER_ENTRY)
                        /\ \A q \in s .. (s + count - 1) : ~bitmap_test(pm.bitmap, q)}
             start == Min(runs)
             charged == [pm EXCEPT !.free_pages = IF @ >= count THEN @ - count ELSE 0]
         IN IF runs = {} THEN [pm |-> charged, addr |-> NULL]
            ELSE [pm |-> [charged EXCEPT !.bitmap = SetRange(pm.bitmap, start, count)],
                  addr |-> start * PAGE_SIZE]

\* pmm_alloc_pages: the scan stops at the first page >= total_pages, and the
\* run counter restarts in every bitmap word.
PmmAllocPages(pm, count) ==
    IF count = 0 \/ count > pm.free_pages THEN [pm |-> pm, addr |-> NULL]
    ELSE IF count = 1 THEN PmmAllocPage(pm)
    ELSE LET runs == {s \in ScanPages(pm) :
                        /\ s + count - 1 < pm.total_pages
                        /\ (s \div BITS_PER_ENTRY) = ((s + count - 1) \div BITS_PER_ENTRY)
                        /\ \A q \in s .. (s + count - 1) : ~bitmap_test(pm.bitmap, q)}
             start == Min(runs)
         IN IF runs = {} THEN [pm |-> pm, addr |-> NULL]
            ELSE [pm |-> [pm EXCEPT !.bitmap = SetRange(pm.bitmap, start, count),
                                    !.free_pages = pm.free_pages - count],
                  addr |-> start * PAGE_SIZE]

\* pmm_free_page without the bitmap_test guard.
PmmFreePageUnguarded(pm, addr) ==
    LET page == addr \div PAGE_SIZE
    IN IF page >= pm.total_pages THEN pm
       ELSE [pm EXCEPT !.bitmap = bitmap_clear(pm.bitmap, page),
                       !.free_pages = pm.free_pages + 1]

PmmFreePage(pm, addr) ==
    LET page == addr \div PAGE_SIZE
    IN IF page >= pm.total_pages THEN pm
       ELSE IF bitmap_test(pm.bitmap, page)
            THEN [pm EXCEPT !.bitmap = bitmap_clear(pm.bitmap, page),
                            !.free_pages = pm.free_pages + 1]
            ELSE pm

RECURSIVE FreeLoop(_, _, _, _)
FreeLoop(pm, start_page, i, count) ==
    IF i >= count \/ start_page + i >= pm.total_pages THEN pm
    ELSE FreeLoop(PmmFreePage(pm, (start_page + i) * PAGE_SIZE), start_page, i + 1, count)

PmmFreePages(pm, addr, count) ==
    LET start_page == addr \div PAGE_SIZE
    IN IF start_page >= pm.total_pages THEN pm ELSE FreeLoop(pm, start_page, 0, count)

(***************************************************************************)
(* The inputs of the allocator's operations.                               *)
(***************************************************************************)
\* Memory maps a bootloader hands over: entries sorted by base, not overlapping.
MemMaps ==
    { <<MemEntry(TRUE, 0, TotalPages * PAGE_SIZE)>>,
      <<MemEntry(FALSE, 0, PAGE_SIZE), MemEntry(TRUE, PAGE_SIZE, 3 * PAGE_SIZE),
        MemEntry(FALSE, 4 * PAGE_SIZE, PAGE_SIZE),
        MemEntry(TRUE, 5 * PAGE_SIZE, (TotalPages - 3) * PAGE_SIZE)>>,
      <<MemEntry(TRUE, 2 * PAGE_SIZE, (TotalPages + 8) * PAGE_SIZE)>> }

\* Addresses handed to pmm_free_page / pmm_free_pages: page 0, the first
\* pages the scan of the allocator reaches, the last pages of the bitmap's
\* range and two beyond it, and two unaligned addresses.
FreePageNumbers ==
    {0} \cup (BITS_PER_ENTRY .. (BITS_PER_ENTRY + 2)) \cup ((TotalPages - 2) .. (TotalPages + 1))

FreeAddrs ==
    {p * PAGE_SIZE : p \in FreePageNumbers}
        \cup {p * PAGE_SIZE + 8 : p \in {BITS_PER_ENTRY, TotalPages}}

(***************************************************************************)
(* Actions of the allocator.                                               *)
(***************************************************************************)
pmm_init ==
    \E memmap \in MemMaps :
        /\ SetPmm(PmmInit(memmap))
        /\ ret' = Ret("pmm_init", 0)
        /\ UNCHANGED <<vmm_vars, mem, fd_vars, proc_vars, other_vars, panic>>

pmm_alloc_page ==
    LET r == PmmAllocPage(PmmState)
    IN /\ SetPmm(r.pm)
       /\ ret' = Ret("pmm_alloc_page", r.addr)
       /\ UNCHANGED <<vmm_vars, mem, fd_vars, proc_vars, other_vars, panic>>

pmm_alloc_pages ==
    \E count \in 0 .. MaxCount :
        LET r == PmmAllocPages(PmmState, count)
        IN /\ SetPmm(r.pm)
           /\ ret' = RetOut("pmm_alloc_pages", r.addr, <<count>>)
           /\ UNCHANGED <<vmm_vars, mem, fd_vars, proc_vars, other_vars, panic>>

pmm_free_page ==
    \E addr \in FreeAddrs :
        /\ SetPmm(PmmFreePage(PmmState, addr))
        /\ ret' = Ret("pmm_free_page", 0)
        /\ UNCHANGED <<vmm_vars, mem, fd_vars, proc_vars, other_vars, panic>>

pmm_free_pages ==
    \E addr \in FreeAddrs, count \in 0 .. MaxCount :
        /\ SetPmm(PmmFreePages(PmmState, addr, count))
        /\ ret' = Ret("pmm_free_pages", 0)
        /\ UNCHANGED <<vmm_vars, mem, fd_vars, proc_vars, other_vars, panic>>

(***************************************************************************)
(* Page-table manager, mm/vmm.c.  A page-table entry is the pair of the    *)
(* address bits and the flag bits of the 64-bit word: entry = addr | flags.*)
(* Of the flags only PRESENT, WRITABLE, USER and NX are kept.  PTE_NX is   *)
(* bit 63 of the word, above the 12 low bits that "& ~0xFFF" removes, so   *)
(* it stays in what the walk takes for an address.                         *)
(***************************************************************************)
PTE_PRESENT == "P"
PTE_WRITABLE == "W"
PTE_USER == "U"
PTE_NX == "NX"

\* The value of bit 63 in an address (folded down to bit 30: the model's
\* addresses stay far below it).
PTE_NX_BIT == 2^30

\* What a walk reports when it dereferences an address that holds no table.
FAULT == 0 - 1

PageEntry(addr, flags) == [addr |-> addr, flags |-> flags]

ZeroEntry == PageEntry(0, {})

\* memset(table, 0, sizeof(page_table_t))
ZeroTable == [i \in 0 .. (TableEntries - 1) |-> ZeroEntry]

\* entry & PTE_PRESENT
IsPresent(e) == PTE_PRESENT \in e.flags

\* entry & ~0xFFF
EntryAddr(e) == e.addr + (IF PTE_NX \in e.flags THEN PTE_NX_BIT ELSE 0)

\* get_page_indices: the four table indices of a virtual address.
PageIndex(virt, level) ==
    LET vpn == virt \div PAGE_SIZE
    IN CASE level = 4 -> (vpn \div (TableEntries * TableEntries * TableEntries)) % TableEntries
         [] level = 3 -> (vpn \div (TableEntries * TableEntries)) % TableEntries
         [] level = 2 -> (vpn \div TableEntries) % TableEntries
         [] level = 1 -> vpn % TableEntries

VmmState == [tables |-> tables, pm |-> PmmState]

\* create_page_table: a frame from the PMM, zeroed.
CreatePageTable(vm) ==
    LET r == PmmAllocPage(vm.pm)
    IN IF r.addr = NULL THEN [vm |-> vm, addr |-> NULL]
       ELSE [vm |-> [tables |-> [a \in DOMAIN vm.tables \cup {r.addr} |->
                                    IF a = r.addr THEN ZeroTable ELSE vm.tables[a]],
                     pm |-> r.pm],
             addr |-> r.addr]

\* One "get or create" step of vmm_map_page on entry idx of the table at tbl:
\* st is "ok" (tbl is the next table), "nomem" (create_page_table failed) or
\* "fault" (the present entry does not lead to a table).
MapStep(vm, tbl, idx, flags) ==
    LET e == vm.tables[tbl][idx]
    IN IF IsPresent(e)
       THEN IF EntryAddr(e) \in DOMAIN vm.tables
            THEN [st |-> "ok", vm |-> vm, tbl |-> EntryAddr(e)]
            ELSE [st |-> "fault", vm |-> vm, tbl |-> NULL]
       ELSE Bind(CreatePageTable(vm), LAMBDA c :
            IF c.addr = NULL
            THEN [st |-> "nomem", vm |-> vm, tbl |-> NULL]
            ELSE [st |-> "ok",
                  vm |-> [c.vm EXCEPT !.tables[tbl][idx] =
                              PageEntry(c.addr, flags \cup {PTE_PRESENT})],
                  tbl |-> c.addr])

\* pt->entries[pt_index] = phys | flags | PTE_PRESENT
LeafEntry(phys, flags) == PageEntry(phys, flags \cup {PTE_PRESENT})

\* vmm_map_page: [st, vm]; st "ok" is a return of true, "nomem" of false.
VmmMapPage(vm, root, virt, phys, flags) ==
    Bind(MapStep(vm, root, PageIndex(virt, 4), flags), LAMBDA s4 :
        IF s4.st # "ok" THEN [st |-> s4.st, vm |-> s4.vm]
        ELSE Bind(MapStep(s4.vm, s4.tbl, PageIndex(virt, 3), flags), LAMBDA s3 :
        IF s3.st # "ok" THEN [st |-> s3.st, vm |-> s3.vm]
        ELSE Bind(MapStep(s3.vm, s3.tbl, PageIndex(virt, 2), flags), LAMBDA s2 :
        IF s2.st # "ok" THEN [st |-> s2.st, vm |-> s2.vm]
        ELSE [st |-> "ok",
              vm |-> [s2.vm EXCEPT !.tables[s2.tbl][PageIndex(virt, 1)] =
                          LeafEntry(phys, flags)]])))

\* The read-only walk of vmm_unmap_page and vmm_get_phys_addr down to the
\* page table: st is "ok" (tbl is the page table), "absent" or "fault".
RECURSIVE Walk(_, _, _, _)
Walk(tbls, tbl, virt, level) ==
    IF level = 1 THEN [st |-> "ok", tbl |-> tbl]
    ELSE LET e == tbls[tbl][PageIndex(virt, level)]
         IN IF ~IsPresent(e) THEN [st |-> "absent", tbl |-> NULL]
            ELSE IF EntryAddr(e) \notin DOMAIN tbls THEN [st |-> "fault", tbl |-> NULL]
            ELSE Walk(tbls, EntryAddr(e), virt, level - 1)

\* vmm_get_phys_addr: the value returned (FAULT when the walk faults).
VmmGetPhysAddr(tbls, root, virt) ==
    LET w == Walk(tbls, root, virt, 4)
        e == tbls[w.tbl][PageIndex(virt, 1)]
    IN IF w.st = "fault" THEN FAULT
       ELSE IF w.st = "absent" THEN 0
       ELSE IF ~IsPresent(e) THEN 0
       ELSE EntryAddr(e) + (virt % PAGE_SIZE)

\* vmm_unmap_page: [st, tables]; st "ok" is a return of true, "absent" of false.
VmmUnmapPage(tbls, root, virt) ==
    LET w == Walk(tbls, root, virt, 4)
    IN IF w.st # "ok" THEN [st |-> w.st, tables |-> tbls]
       ELSE IF ~IsPresent(tbls[w.tbl][PageIndex(virt, 1)])
            THEN [st |-> "absent", tables |-> tbls]
            ELSE [st |-> "ok",
                  tables |-> [tbls EXCEPT ![w.tbl][PageIndex(virt, 1)] = ZeroEntry]]

(***************************************************************************)
(* The inputs of the page-table operations.                                *)
(***************************************************************************)
\* Page-aligned virtual addresses: two pages that share a page table and one
\* under another PML4 entry.
VirtAddrs ==
    {vpn * PAGE_SIZE : vpn \in {0, 1, TableEntries * TableEntries * TableEntries}}

\* The first address sys_mmap hands out (0x600000000000 in syscalls.c): the
\* first page under the second PML4 entry.
MMAP_BASE == TableEntries * TableEntries * TableEntries * PAGE_SIZE

\* Page-aligned physical addresses of data frames.
PhysAddrs == {PAGE_SIZE, 2 * PAGE_SIZE}

\* The flag words the callers of vmm_map_page pass: vmm_init and expand_heap
\* (PRESENT | WRITABLE), sys_brk (PRESENT | WRITABLE | USER) and sys_mmap
\* (PRESENT | USER, with WRITABLE for PROT_WRITE and NX without PROT_EXEC).
\* The model draws from the words of sys_brk and of a read-only sys_mmap.
MapFlags ==
    { {PTE_PRESENT, PTE_WRITABLE, PTE_USER},
      {PTE_PRESENT, PTE_USER, PTE_NX} }

StatusVal(st) == IF st = "ok" THEN 1 ELSE IF st = "fault" THEN FAULT ELSE 0

DropKey(f, k) == [x \in DOMAIN f \ {k} |-> f[x]]

PutKey(f, k, v) == [x \in DOMAIN f \cup {k} |-> IF x = k THEN v ELSE f[x]]

(***************************************************************************)
(* Actions of the page-table manager.                                      *)
(***************************************************************************)
vmm_map_page ==
    /\ ~panic
    /\ current_pml4 # NULL
    /\ \E virt \in VirtAddrs, phys \in PhysAddrs, flags \in MapFlags :
        \E r \in {VmmMapPage(VmmState, current_pml4, virt, phys, flags)} :
           /\ tables' = r.vm.tables
           /\ SetPmm(r.vm.pm)
           /\ mapped' = IF r.st = "ok" THEN PutKey(mapped, virt, phys) ELSE mapped
           /\ panic' = (r.st = "fault")
           /\ ret' = Ret("vmm_map_page", StatusVal(r.st))
           /\ UNCHANGED <<current_pml4, next_mmap_addr, brk_vars, mem, fd_vars, proc_vars, other_vars>>

vmm_unmap_page ==
    /\ ~panic
    /\ current_pml4 # NULL
    /\ \E virt \in VirtAddrs :
        LET r == VmmUnmapPage(tables, current_pml4, virt)
        IN /\ tables' = r.tables
           /\ mapped' = IF r.st = "ok" THEN DropKey(mapped, virt) ELSE mapped
           /\ panic' = (r.st = "fault")
           /\ ret' = Ret("vmm_unmap_page", StatusVal(r.st))
           /\ UNCHANGED <<pmm_vars, current_pml4, next_mmap_addr, brk_vars, mem, fd_vars, proc_vars,
                          other_vars>>

vmm_get_phys_addr ==
    /\ ~panic
    /\ current_pml4 # NULL
    /\ \E virt \in VirtAddrs \cup {PAGE_SIZE + 8} :
        LET r == VmmGetPhysAddr(tables, current_pml4, virt)
        IN /\ panic' = (r = FAULT)
           /\ ret' = Ret("vmm_get_phys_addr", r)
           /\ UNCHANGED <<pmm_vars, vmm_vars, mem, fd_vars, proc_vars, other_vars>>

(***************************************************************************)
(* Kernel objects.  malloc() of utils/mem.c hands out whole page frames of *)
(* the PMM and free() gives the frame back, so every object (process_t,    *)
(* file_descriptor_t, pipe_t, ring buffers, net_socket) lives at the       *)
(* address of a frame and a freed frame is handed out again by the next    *)
(* malloc().  mem keeps what was last stored at an address; a freed        *)
(* object's record stays until the frame is written again.  Reading an     *)
(* object through a pointer whose frame holds another kind of object, or   *)
(* none, is undefined: the model stops there with panic set.               *)
(***************************************************************************)
KState ==
    [pm |-> PmmState, mem |-> mem, fd_table |-> fd_table, socket_pool |-> socket_pool,
     current_process |-> current_process, process_list |-> process_list,
     next_pid |-> next_pid, process_count |-> process_count,
     ready_queue_head |-> ready_queue_head, ready_queue_tail |-> ready_queue_tail,
     panic |-> panic]

SetK(k) ==
    /\ SetPmm(k.pm)
    /\ mem' = k.mem
    /\ fd_table' = k.fd_table
    /\ socket_pool' = k.socket_pool
    /\ current_process' = k.current_process
    /\ process_list' = k.process_list
    /\ next_pid' = k.next_pid
    /\ process_count' = k.process_count
    /\ ready_queue_head' = k.ready_queue_head
    /\ ready_queue_tail' = k.ready_queue_tail
    /\ panic' = k.panic

Panic(k) == [k EXCEPT !.panic = TRUE]

\* The frame at address a holds an object of the given kind.
IsObj(m, a, kind) == a \in DOMAIN m /\ m[a].kind = kind

\* malloc(size) for 0 < size <= PAGE_SIZE: one frame of the PMM.
Malloc(k) ==
    LET r == PmmAllocPage(k.pm)
    IN [k |-> [k EXCEPT !.pm = r.pm], addr |-> r.addr]

\* free(ptr): pmm_free_page of the frame at ptr.
Free(k, ptr) ==
    IF ptr = NULL THEN k ELSE [k EXCEPT !.pm = PmmFreePage(k.pm, ptr)]

Store(k, addr, obj) == [k EXCEPT !.mem = PutKey(k.mem, addr, obj)]

Wrap16(n) == n % 65536

(***************************************************************************)
(* Processes and the round-robin scheduler, core/process.c.                *)
(***************************************************************************)
PROCESS_STATE_NEW == "NEW"
PROCESS_STATE_READY == "READY"
PROCESS_STATE_RUNNING == "RUNNING"
PROCESS_STATE_BLOCKED == "BLOCKED"
PROCESS_STATE_TERMINATED == "TERMINATED"

\* process->time_slice = 100
DEFAULT_TIME_SLICE == 100

\* The process_t that process_create fills in; TimeSlice stands for the slice
\* where it only has to run out, DEFAULT_TIME_SLICE is used where ticks are
\* counted.
NewProcess(pid, priority, stack, next) ==
    [kind |-> "proc", pid |-> pid, state |-> PROCESS_STATE_NEW, stack |-> stack,
     next |-> next, time_slice |-> TimeSlice, time_used |-> 0, priority |-> priority]

\* process_create: [k, addr]; addr is the new process_t or NULL.
ProcessCreate(k, priority) ==
    LET m == Malloc(k)
        s == PmmAllocPage(m.k.pm)
        rec == NewProcess(k.next_pid, priority, s.addr, NULL)
        k1 == [Store(m.k, m.addr, rec) EXCEPT !.next_pid = k.next_pid + 1]
    IN IF k.process_count >= MAX_PROCESSES \/ m.addr = NULL THEN [k |-> k, addr |-> NULL]
       ELSE IF s.addr = NULL THEN [k |-> Free(k1, m.addr), addr |-> NULL]
       ELSE [k |-> [Store(Store(k1, s.addr, [kind |-> "stack"]), m.addr,
                          [rec EXCEPT !.next = k.process_list])
                      EXCEPT !.pm = s.pm,
                             !.process_list = m.addr,
                             !.process_count = k.process_count + 1],
             addr |-> m.addr]

\* process_switch; context_switch itself is not modelled.
ProcessSwitch(k, next) ==
    IF next = NULL \/ next = k.current_process THEN k
    ELSE IF ~IsObj(k.mem, next, "proc") THEN Panic(k)
    ELSE [k EXCEPT !.current_process = next]

SchedulerAdd(k, process) ==
    IF process = NULL THEN k
    ELSE IF ~IsObj(k.mem, process, "proc") THEN Panic(k)
    ELSE LET m1 == [k.mem EXCEPT ![process].state = PROCESS_STATE_READY,
                                 ![process].next = NULL]
         IN IF k.ready_queue_tail = NULL
            THEN [k EXCEPT !.mem = m1, !.ready_queue_head = process,
                           !.ready_queue_tail = process]
            ELSE IF ~IsObj(m1, k.ready_queue_tail, "proc") THEN Panic(k)
            ELSE [k EXCEPT !.mem = [m1 EXCEPT ![k.ready_queue_tail].next = process],
                           !.ready_queue_tail = process]

\* The loop of scheduler_remove, "while (prev && prev->next != process)":
\* the prev it ends with (NULL when the queue ends first), or HANG when the
\* links form a cycle that does not hold the process, or WILD when a link
\* leaves the processes.
HANG == 0 - 1
WILD == 0 - 2

RECURSIVE FindPrev(_, _, _, _)
FindPrev(m, prev, process, seen) ==
    IF prev = NULL THEN NULL
    ELSE IF ~IsObj(m, prev, "proc") THEN WILD
    ELSE IF m[prev].next = process THEN prev
    ELSE IF prev \in seen THEN HANG
    ELSE FindPrev(m, m[prev].next, process, seen \cup {prev})

SchedulerRemove(k, process) ==
    IF process = NULL THEN k
    ELSE IF ~IsObj(k.mem, process, "proc") THEN Panic(k)
    ELSE IF k.ready_queue_head = process
    THEN LET h == k.mem[process].next
         IN [k EXCEPT !.ready_queue_head = h,
                      !.ready_queue_tail = IF h = NULL THEN NULL ELSE k.ready_queue_tail,
                      !.mem[process].next = NULL]
    ELSE LET prev == FindPrev(k.mem, k.ready_queue_head, process, {})
         IN IF prev \in {HANG, WILD} THEN Panic(k)
            ELSE IF prev = NULL THEN [k EXCEPT !.mem[process].next = NULL]
            ELSE [k EXCEPT !.mem = [k.mem EXCEPT ![prev].next = k.mem[process].next,
                                                 ![process].next = NULL],
                           !.ready_queue_tail = IF k.ready_queue_tail = process
                                                THEN prev ELSE k.ready_queue_tail]

\* scheduler_next: [k, addr]; addr is the process taken off the queue or NULL.
SchedulerNext(k) ==
    LET next == k.ready_queue_head
        h == k.mem[next].next
    IN IF next = NULL THEN [k |-> k, addr |-> NULL]
       ELSE IF ~IsObj(k.mem, next, "proc") THEN [k |-> Panic(k), addr |-> NULL]
       ELSE [k |-> [k EXCEPT !.ready_queue_head = h,
                             !.ready_queue_tail = IF h = NULL THEN NULL ELSE k.ready_queue_tail,
                             !.mem[next].next = NULL],
             addr |-> next]

\* scheduler_tick with the slice test "time_used > time_slice".
SchedulerTickLate(k) ==
    LET cur == k.current_process
        used == k.mem[cur].time_used + 1
        k1 == [k EXCEPT !.mem[cur].time_used = used]
        n == SchedulerNext(k1)
        k2 == [n.k EXCEPT !.mem[cur].time_used = 0]
    IN IF cur = NULL THEN k
       ELSE IF ~IsObj(k.mem, cur, "proc") THEN Panic(k)
       ELSE IF used <= k.mem[cur].time_slice THEN k1
       ELSE IF n.k.panic THEN n.k
       ELSE IF n.addr = NULL THEN k1
       ELSE ProcessSwitch(SchedulerAdd(k2, cur), n.addr)

\* scheduler_tick
SchedulerTick(k) ==
    LET cur == k.current_process
        used == k.mem[cur].time_used + 1
        k1 == [k EXCEPT !.mem[cur].time_used = used]
        n == SchedulerNext(k1)
        k2 == [n.k EXCEPT !.mem[cur].time_used = 0]
    IN IF cur = NULL THEN k
       ELSE IF ~IsObj(k.mem, cur, "proc") THEN Panic(k)
       ELSE IF used < k.mem[cur].time_slice THEN k1
       ELSE IF n.k.panic THEN n.k
       ELSE IF n.addr = NULL THEN k1
       ELSE ProcessSwitch(SchedulerAdd(k2, cur), n.addr)

(***************************************************************************)
(* Sockets of net/net.c, as far as sys_socket and free_fd use them.        *)
(***************************************************************************)
SOCKET_TCP == 0
SOCKET_UDP == 1
SOCKET_RAW == 2
SOCKET_STATE_CLOSED == 0

\* memset(&socket_pool[fd], 0, sizeof(net_socket))
ZeroSocket == [fd |-> 0, type |-> 0, state |-> SOCKET_STATE_CLOSED, protocol_data |-> NULL]

\* allocate_socket_fd: the first pool index whose state is CLOSED, or -1.
AllocateSocketFd(pool) ==
    LET closed == {i \in DOMAIN pool : pool[i].state = SOCKET_STATE_CLOSED}
    IN IF closed = {} THEN 0 - 1 ELSE Min(closed)

\* net_socket_create: [k, fd]
NetSocketCreate(k, type) ==
    LET fd == AllocateSocketFd(k.socket_pool)
        m == Malloc(k)
        sock == [fd |-> fd, type |-> type, state |-> SOCKET_STATE_CLOSED,
                 protocol_data |-> k.socket_pool[fd].protocol_data]
    IN IF fd < 0 THEN [k |-> k, fd |-> 0 - 1]
       ELSE IF type # SOCKET_TCP
       THEN [k |-> [k EXCEPT !.socket_pool[fd] = sock], fd |-> fd]
       ELSE IF m.addr = NULL
       THEN [k |-> [k EXCEPT !.socket_pool[fd] = ZeroSocket], fd |-> 0 - 1]
       ELSE [k |-> [Store(m.k, m.addr, [kind |-> "tcp"])
                       EXCEPT !.socket_pool[fd] = [sock EXCEPT !.protocol_data = m.addr]],
             fd |-> fd]

\* net_socket_close
NetSocketClose(k, socket) ==
    IF socket < 0 \/ socket >= NET_MAX_SOCKETS THEN k
    ELSE [Free(k, k.socket_pool[socket].protocol_data)
             EXCEPT !.socket_pool[socket] = ZeroSocket]

(***************************************************************************)
(* The descriptor table and its system calls, core/syscalls.c.             *)
(***************************************************************************)
FD_TYPE_FILE == 0
FD_TYPE_SOCKET == 1
FD_TYPE_PIPE == 2
FD_TYPE_DIR == 3

STDIN_FILENO == 0
STDOUT_FILENO == 1
STDERR_FILENO == 2

O_RDONLY == 0
O_WRONLY == 1
O_RDWR == 2

SOCK_STREAM == 1
SOCK_DGRAM == 2
SOCK_RAW == 3

ENOENT == 2
ESRCH == 3
EIO == 5
EBADF == 9
EFAULT == 14
EAGAIN == 11
ENOMEM == 12
EACCES == 13
EINVAL == 22
EMFILE == 24
EPIPE == 32

Slots == 0 .. (MAX_FDS - 1)

\* The file_descriptor_t that alloc_fd leaves: zeroed, refcount 1.
FreshFd ==
    [kind |-> "fd", inode |-> 0, offset |-> 0, flags |-> 0, refcount |-> 1,
     private_data |-> NULL, type |-> FD_TYPE_FILE]

ValidFd(k, fd) == fd \in Slots /\ k.fd_table[fd] # NULL

\* alloc_fd: [k, fd]; fd is the slot or a negative errno.
AllocFd(k) ==
    LET free == {i \in Slots : k.fd_table[i] = NULL}
        i == Min(free)
        m == Malloc(k)
    IN IF free = {} THEN [k |-> k, fd |-> 0 - EMFILE]
       ELSE IF m.addr = NULL THEN [k |-> k, fd |-> 0 - ENOMEM]
       ELSE [k |-> [Store(m.k, m.addr, FreshFd) EXCEPT !.fd_table[i] = m.addr], fd |-> i]

\* free_fd, the "refcount == 0" branch: release the payload by its type tag,
\* then the descriptor itself.
ReleaseFd(k, fd) ==
    LET a == k.fd_table[fd]
        d == k.mem[a]
        p == d.private_data
        k1 == IF d.type = FD_TYPE_SOCKET /\ p # NULL
              THEN IF ~IsObj(k.mem, p, "sock") THEN Panic(k)
                   ELSE Free(NetSocketClose(k, k.mem[p].fd), p)
              ELSE IF d.type = FD_TYPE_PIPE /\ p # NULL
              THEN IF ~IsObj(k.mem, p, "pipe") THEN Panic(k)
                   ELSE Free(Free(k, k.mem[p].buffer), p)
              ELSE k
    IN IF k1.panic THEN k1
       ELSE [Free(k1, a) EXCEPT !.fd_table[fd] = NULL]

\* free_fd
FreeFd(k, fd) ==
    IF ~ValidFd(k, fd) THEN k
    ELSE IF ~IsObj(k.mem, k.fd_table[fd], "fd") THEN Panic(k)
    ELSE LET a == k.fd_table[fd]
             rc == Wrap16(k.mem[a].refcount + 65535)
             k1 == [k EXCEPT !.mem[a].refcount = rc]
         IN IF rc = 0 THEN ReleaseFd(k1, fd) ELSE k1

\* sys_open; inode is what ext2_find_file (or, with O_CREAT, ext2_create_file)
\* came back with.
SysOpen(k, inode, creat, flags) ==
    LET r == AllocFd(k)
    IN IF inode = 0 THEN [k |-> k, val |-> IF creat THEN 0 - EACCES ELSE 0 - ENOENT]
       ELSE IF r.fd < 0 THEN [k |-> r.k, val |-> r.fd]
       ELSE [k |-> [r.k EXCEPT !.mem[r.k.fd_table[r.fd]] =
                        [FreshFd EXCEPT !.inode = inode, !.flags = flags]],
             val |-> r.fd]

\* sys_close
SysClose(k, fd) ==
    IF ~ValidFd(k, fd) THEN [k |-> k, val |-> 0 - EBADF]
    ELSE [k |-> FreeFd(k, fd), val |-> 0]

\* The pipe_t of syscalls.c and its ring.
NewSysPipe(buffer) ==
    [kind |-> "pipe", buffer |-> buffer, buffer_size |-> SysPipeSize,
     read_pos |-> 0, write_pos |-> 0, data_size |-> 0]

NewRing == [kind |-> "buf", data |-> [i \in 0 .. (SysPipeSize - 1) |-> 0]]

\* sys_pipe: [k, val, out]; out is pipefd[] when val is 0.
SysPipe(k) ==
    LET mp == Malloc(k)
        mb == Malloc(mp.k)
        k1 == Store(Store(mb.k, mp.addr, NewSysPipe(mb.addr)), mb.addr, NewRing)
        rf == AllocFd(k1)
        wf == AllocFd(rf.k)
        ra == wf.k.fd_table[rf.fd]
        wa == wf.k.fd_table[wf.fd]
    IN IF mp.addr = NULL THEN [k |-> k, val |-> 0 - ENOMEM, out |-> << >>]
       ELSE IF mb.addr = NULL
       THEN [k |-> Free(Store(mp.k, mp.addr, NewSysPipe(NULL)), mp.addr),
             val |-> 0 - ENOMEM, out |-> << >>]
       ELSE IF rf.fd < 0
       THEN [k |-> Free(Free(rf.k, mb.addr), mp.addr), val |-> rf.fd, out |-> << >>]
       ELSE IF wf.fd < 0
       THEN [k |-> Free(Free(FreeFd(wf.k, rf.fd), mb.addr), mp.addr),
             val |-> wf.fd, out |-> << >>]
       ELSE [k |-> [wf.k EXCEPT
                      !.mem[ra] = [FreshFd EXCEPT !.type = FD_TYPE_PIPE,
                                                  !.private_data = mp.addr,
                                                  !.flags = O_RDONLY],
                      !.mem[wa] = [FreshFd EXCEPT !.type = FD_TYPE_PIPE,
                                                  !.private_data = mp.addr,
                                                  !.flags = O_WRONLY]],
             val |-> 0, out |-> <<rf.fd, wf.fd>>]

\* sys_dup
SysDup(k, oldfd) ==
    LET r == AllocFd(k)
        old == k.fd_table[oldfd]
        new == r.k.fd_table[r.fd]
    IN IF ~ValidFd(k, oldfd) THEN [k |-> k, val |-> 0 - EBADF]
       ELSE IF r.fd < 0 THEN [k |-> r.k, val |-> r.fd]
       ELSE IF ~IsObj(r.k.mem, old, "fd") THEN [k |-> Panic(k), val |-> 0]
       ELSE [k |-> [r.k EXCEPT !.mem[new] = r.k.mem[old],
                               !.mem[old].refcount = Wrap16(r.k.mem[old].refcount + 1)],
             val |-> r.fd]

\* sys_dup2.  With newfd = oldfd and the slot still populated after the
\* close, the new file_descriptor_t is copied onto itself: its content is
\* what the frame held before, an old file_descriptor_t or, in a frame that
\* never held one, arbitrary bytes (garbage stands for them).
SysDup2(k, oldfd, newfd, garbage) ==
    LET k1 == IF newfd \in Slots /\ k.fd_table[newfd] # NULL
              THEN SysClose(k, newfd).k ELSE k
        m == Malloc(k1)
        old == k1.fd_table[oldfd]
        src == IF oldfd # newfd THEN k1.mem[old]
               ELSE IF IsObj(m.k.mem, m.addr, "fd") THEN m.k.mem[m.addr]
               ELSE garbage
        k2 == [m.k EXCEPT !.fd_table[newfd] = m.addr]
    IN IF k1.panic THEN [k |-> k1, val |-> 0]
       ELSE IF ~ValidFd(k1, oldfd) THEN [k |-> k1, val |-> 0 - EBADF]
       ELSE IF newfd \notin Slots THEN [k |-> k1, val |-> 0 - EBADF]
       ELSE IF m.addr = NULL THEN [k |-> k2, val |-> 0 - ENOMEM]
       ELSE IF ~IsObj(k1.mem, old, "fd") THEN [k |-> Panic(k1), val |-> 0]
       ELSE IF oldfd # newfd
       THEN [k |-> [Store(k2, m.addr, src)
                       EXCEPT !.mem[old].refcount = Wrap16(k1.mem[old].refcount + 1)],
             val |-> newfd]
       ELSE [k |-> Store(k2, m.addr, [src EXCEPT !.refcount = Wrap16(src.refcount + 1)]),
             val |-> newfd]

\* sys_socket
SysSocket(k, type) ==
    LET r == AllocFd(k)
        sock_type == CASE type = SOCK_STREAM -> SOCKET_TCP
                       [] type = SOCK_DGRAM -> SOCKET_UDP
                       [] type = SOCK_RAW -> SOCKET_RAW
                       [] OTHER -> 0 - 1
        c == NetSocketCreate(r.k, sock_type)
        m == Malloc(c.k)
        a == r.k.fd_table[r.fd]
    IN IF r.fd < 0 THEN [k |-> r.k, val |-> r.fd]
       ELSE IF sock_type < 0 THEN [k |-> FreeFd(r.k, r.fd), val |-> 0 - EINVAL]
       ELSE IF c.fd < 0 THEN [k |-> FreeFd(c.k, r.fd), val |-> c.fd]
       ELSE IF m.addr = NULL
       THEN [k |-> FreeFd(NetSocketClose(c.k, c.fd), r.fd), val |-> 0 - ENOMEM]
       ELSE [k |-> [Store(m.k, m.addr, [kind |-> "sock", fd |-> c.fd, type |-> sock_type])
                       EXCEPT !.mem[a] = [FreshFd EXCEPT !.type = FD_TYPE_SOCKET,
                                                         !.private_data = m.addr,
                                                         !.flags = O_RDWR]],
             val |-> r.fd]

\* The bytes a caller's buffer holds, and the first n of them.
Bytes == 1 .. 2

Take(buf, n) == [i \in 1 .. Min({n, Len(buf)}) |-> buf[i]]

\* The copy loop of sys_read on a pipe_t p with ring b: the bytes taken.
RECURSIVE RingRead(_, _, _, _)
RingRead(data, pos, size, n) ==
    IF n = 0 THEN << >>
    ELSE <<data[pos]>> \o RingRead(data, (pos + 1) % size, size, n - 1)

\* The copy loop of sys_write: the ring after storing the bytes of src at pos.
RECURSIVE RingWrite(_, _, _, _)
RingWrite(data, pos, size, src) ==
    IF src = << >> THEN data
    ELSE RingWrite([data EXCEPT ![pos] = Head(src)], (pos + 1) % size, size, Tail(src))

\* sys_read with a non-NULL buf: [k, val, out].  c is the character the
\* serial port delivers and ok whether ext2_read_file succeeds.  No packet
\* is ever queued for a socket, so net_socket_receive returns -1.
SysRead(k, fd, count, c, ok) ==
    LET a == k.fd_table[fd]
        d == k.mem[a]
        p == d.private_data
        pd == k.mem[p]
        to_read == Min({count, pd.data_size})
    IN IF ~ValidFd(k, fd) THEN [k |-> k, val |-> 0 - EBADF, out |-> << >>]
       ELSE IF fd = STDIN_FILENO
       THEN IF count > 0 THEN [k |-> k, val |-> 1, out |-> <<c>>]
            ELSE [k |-> k, val |-> 0, out |-> << >>]
       ELSE IF ~IsObj(k.mem, a, "fd") THEN [k |-> Panic(k), val |-> 0, out |-> << >>]
       ELSE IF d.type = FD_TYPE_PIPE
       THEN IF ~IsObj(k.mem, p, "pipe") \/ ~IsObj(k.mem, pd.buffer, "buf")
            THEN [k |-> Panic(k), val |-> 0, out |-> << >>]
            ELSE [k |-> [k EXCEPT !.mem[p].read_pos = (pd.read_pos + to_read) % pd.buffer_size,
                                  !.mem[p].data_size = pd.data_size - to_read],
                  val |-> to_read,
                  out |-> RingRead(k.mem[pd.buffer].data, pd.read_pos, pd.buffer_size, to_read)]
       ELSE IF d.type = FD_TYPE_SOCKET
       THEN IF ~IsObj(k.mem, p, "sock") THEN [k |-> Panic(k), val |-> 0, out |-> << >>]
            ELSE [k |-> k, val |-> 0 - EIO, out |-> << >>]
       ELSE IF ~ok THEN [k |-> k, val |-> 0 - EIO, out |-> << >>]
       ELSE [k |-> [k EXCEPT !.mem[a].offset = d.offset + count],
             val |-> count, out |-> << >>]

\* sys_write with a non-NULL buf: [k, val, out]; out is what reached the
\* framebuffer.  ok is whether the framebuffer is there (fd 1 and 2) or
\* ext2_write_file succeeds (a file).  A socket made by sys_socket is never
\* ESTABLISHED, so net_socket_send returns -1.
SysWrite(k, fd, buf, count, ok) ==
    LET a == k.fd_table[fd]
        d == k.mem[a]
        p == d.private_data
        pd == k.mem[p]
        to_write == Min({count, pd.buffer_size - pd.data_size})
    IN IF ~ValidFd(k, fd) THEN [k |-> k, val |-> 0 - EBADF, out |-> << >>]
       ELSE IF fd = STDOUT_FILENO \/ fd = STDERR_FILENO
       THEN IF ~ok THEN [k |-> k, val |-> 0 - EIO, out |-> << >>]
            ELSE [k |-> k, val |-> count, out |-> Take(buf, count)]
       ELSE IF ~IsObj(k.mem, a, "fd") THEN [k |-> Panic(k), val |-> 0, out |-> << >>]
       ELSE IF d.type = FD_TYPE_PIPE
       THEN IF ~IsObj(k.mem, p, "pipe") \/ ~IsObj(k.mem, pd.buffer, "buf")
            THEN [k |-> Panic(k), val |-> 0, out |-> << >>]
            ELSE [k |-> [k EXCEPT !.mem[pd.buffer].data =
                                       RingWrite(@, pd.write_pos, pd.buffer_size,
                                                 Take(buf, to_write)),
                                  !.mem[p].write_pos = (pd.write_pos + to_write) % pd.buffer_size,
                                  !.mem[p].data_size = pd.data_size + to_write],
                  val |-> to_write, out |-> << >>]
       ELSE IF d.type = FD_TYPE_SOCKET
       THEN IF ~IsObj(k.mem, p, "sock") THEN [k |-> Panic(k), val |-> 0, out |-> << >>]
            ELSE [k |-> k, val |-> 0 - 1, out |-> << >>]
       ELSE IF ~ok THEN [k |-> k, val |-> 0 - EIO, out |-> << >>]
       ELSE [k |-> [k EXCEPT !.mem[a].offset = d.offset + count],
             val |-> count, out |-> << >>]

\* The loop of sys_fork over the table: every populated slot gains a reference.
RECURSIVE RefAll(_, _)
RefAll(k, i) ==
    IF i >= MAX_FDS THEN k
    ELSE IF k.fd_table[i] = NULL THEN RefAll(k, i + 1)
    ELSE IF ~IsObj(k.mem, k.fd_table[i], "fd") THEN Panic(k)
    ELSE RefAll([k EXCEPT !.mem[k.fd_table[i]].refcount = Wrap16(@ + 1)], i + 1)

\* sys_fork: [k, val].  process_create never sets page_directory, so the
\* memcpy between the two page directories goes through indeterminate
\* pointers: it faults, or it lands outside every object of the model.
SysFork(k, fault) ==
    LET cur == k.current_process
        c == ProcessCreate(k, k.mem[cur].priority)
        k1 == SchedulerAdd(RefAll(c.k, 0), c.addr)
    IN IF cur = NULL THEN [k |-> k, val |-> 0 - EAGAIN]
       ELSE IF ~IsObj(k.mem, cur, "proc") THEN [k |-> Panic(k), val |-> 0]
       ELSE IF c.addr = NULL THEN [k |-> c.k, val |-> 0 - EAGAIN]
       ELSE IF fault THEN [k |-> Panic(c.k), val |-> 0]
       ELSE [k |-> k1, val |-> k1.mem[c.addr].pid]

\* sys_getpid
SysGetpid(k) ==
    IF k.current_process = NULL THEN 0 - ESRCH ELSE k.mem[k.current_process].pid

\* sys_getppid: process_t has no field for the parent; the call returns 0.
SysGetppid(k) ==
    IF k.current_process = NULL THEN 0 - ESRCH ELSE 0

\* The loop of sys_exit over the table: free_fd of every slot.
RECURSIVE CloseAll(_, _)
CloseAll(k, i) ==
    IF i >= MAX_FDS \/ k.panic THEN k ELSE CloseAll(FreeFd(k, i), i + 1)

\* sys_exit, up to the hlt loop it ends in.
SysExit(k) ==
    LET cur == k.current_process
        k1 == CloseAll(k, 0)
        k2 == SchedulerRemove([k1 EXCEPT !.mem[cur].state = PROCESS_STATE_TERMINATED], cur)
        n == SchedulerNext(k2)
    IN IF cur = NULL THEN k
       ELSE IF k1.panic THEN k1
       ELSE IF ~IsObj(k1.mem, cur, "proc") THEN Panic(k1)
       ELSE IF k2.panic THEN k2
       ELSE IF n.k.panic THEN n.k
       ELSE ProcessSwitch(n.k, n.addr)

(***************************************************************************)
(* CPU exceptions, core/idt.c and main.c.  Every gate of the IDT is an     *)
(* interrupt gate, so a handler runs with interrupts off.  kmain registers *)
(* general_exception_handler for the vectors 0 .. 31.                      *)
(***************************************************************************)
INT_PAGE_FAULT == 14

\* general_exception_handler: it logs the exception and then executes hlt in
\* a loop; it changes nothing of the kernel's state and never returns.
GeneralExceptionHandler(k) == [k |-> k, halted |-> TRUE]

\* exception_handler_common for a vector below 32: the registered handler,
\* or without one cli and a single hlt, which no interrupt ends.
ExceptionHandlerCommon(k, vector, registered) ==
    IF registered THEN GeneralExceptionHandler(k) ELSE [k |-> k, halted |-> TRUE]

(***************************************************************************)
(* Actions of the scheduler and of the system calls.  The caller passes    *)
(* pointers to processes that process_create returned.                     *)
(***************************************************************************)
Procs == {a \in DOMAIN mem : mem[a].kind = "proc"}

\* Every populated slot holds a descriptor with fewer than MaxRef references.
RefsBelow(n) ==
    \A i \in Slots :
        (fd_table[i] # NULL /\ IsObj(mem, fd_table[i], "fd")) => mem[fd_table[i]].refcount < n

\* What a frame that never held a file_descriptor_t may hold.
Garbage ==
    { [FreshFd EXCEPT !.refcount = 0],
      [FreshFd EXCEPT !.refcount = 65535, !.type = FD_TYPE_PIPE] }

\* One more system call is followed.
Counted ==
    /\ budget # 0
    /\ budget' = IF budget > 0 THEN budget - 1 ELSE budget

\* A CPU exception while the kernel runs; out keeps the process that was
\* current and the head of the ready queue when it was raised.
exception ==
    /\ ~panic
    /\ ~halted
    /\ \E vector \in {0, INT_PAGE_FAULT} :
        LET r == ExceptionHandlerCommon(KState, vector, TRUE)
        IN /\ SetK(r.k)
           /\ halted' = r.halted
           /\ ret' = RetOut("exception_handler_common", vector,
                            <<current_process, ready_queue_head>>)
    /\ UNCHANGED <<vmm_vars, hist_vars, acpi, tty_vars, heap_vars, budget, calls>>

process_create ==
    /\ ~panic
    /\ ~halted
    /\ next_pid <= MaxPid
    /\ LET r == ProcessCreate(KState, 1)
       IN /\ SetK(r.k)
          /\ ret' = Ret("process_create", r.addr)
    /\ UNCHANGED <<vmm_vars, other_vars>>

process_switch ==
    /\ ~panic
    /\ ~halted
    /\ \E next \in Procs \cup {NULL} :
        /\ SetK(ProcessSwitch(KState, next))
        /\ ret' = Ret("process_switch", 0)
    /\ UNCHANGED <<vmm_vars, other_vars>>

scheduler_add ==
    /\ ~panic
    /\ ~halted
    /\ \E process \in Procs \cup {NULL} :
        /\ SetK(SchedulerAdd(KState, process))
        /\ ret' = Ret("scheduler_add", 0)
    /\ UNCHANGED <<vmm_vars, other_vars>>

scheduler_remove ==
    /\ ~panic
    /\ \E process \in Procs \cup {NULL} :
        /\ SetK(SchedulerRemove(KState, process))
        /\ ret' = Ret("scheduler_remove", 0)
    /\ UNCHANGED <<vmm_vars, other_vars>>

scheduler_next ==
    /\ ~panic
    /\ LET r == SchedulerNext(KState)
       IN /\ SetK(r.k)
          /\ ret' = Ret("scheduler_next", r.addr)
    /\ UNCHANGED <<vmm_vars, other_vars>>

\* While a trace is kept (ticks >= 0) the call is counted and a change of the
\* current process is recorded by its pid.
scheduler_tick ==
    /\ ~panic
    /\ ~halted
    /\ ticks < TickLimit
    /\ current_process # NULL =>
           mem[current_process].time_used < mem[current_process].time_slice + MaxOverrun
    /\ LET k == SchedulerTick(KState)
       IN /\ SetK(k)
          /\ ticks' = IF ticks >= 0 THEN ticks + 1 ELSE ticks
          /\ switches' = IF ticks >= 0 /\ ~k.panic /\ k.current_process # current_process
                         THEN Append(switches, k.mem[k.current_process].pid)
                         ELSE switches
    /\ ret' = Ret("scheduler_tick", 0)
    /\ UNCHANGED <<vmm_vars, tty_vars, heap_vars, budget, halted, calls, acpi, lineage>>

sys_fork ==
    /\ ~panic
    /\ Counted
    /\ next_pid <= MaxPid
    /\ RefsBelow(MaxRef)
    /\ \E fault \in BOOLEAN :
        LET r == SysFork(KState, fault)
        IN /\ SetK(r.k)
           /\ ret' = Ret("sys_fork", r.val)
    /\ UNCHANGED sys_frame

\* System call numbers of the calls that take a pointer and are modelled.
NR_read == 0
NR_write == 1
NR_pipe == 22

\* A user pointer whose page is not present in the address space.
ABSENT == 0 - 3

\* syscall_handler for read, write and pipe with a pointer argument that is
\* NULL or ABSENT, and a count of 1: [k, val, halted].  The handler passes
\* the pointer on as it is.  sys_read and sys_write answer a NULL buf with
\* -EINVAL and test nothing else about it; sys_pipe tests nothing.  The first
\* access through a pointer whose page is not present raises vector 14.
\* low tells whether page 0 is present (vmm_init maps the low addresses onto
\* themselves in the page tables the boot loader left).
SyscallHandler(k, nr, fd, ptr, low) ==
    LET present == (ptr = NULL /\ low)
        fault(k1) == ExceptionHandlerCommon(k1, INT_PAGE_FAULT, TRUE)
        through(r) == IF r.val <= 0 \/ present
                      THEN [k |-> r.k, val |-> r.val, halted |-> FALSE]
                      ELSE [k |-> fault(k).k, val |-> HANG, halted |-> fault(k).halted]
    IN CASE nr = NR_read ->
              IF ptr = NULL THEN [k |-> k, val |-> 0 - EINVAL, halted |-> FALSE]
              ELSE through(SysRead(k, fd, 1, 1, TRUE))
         [] nr = NR_write ->
              IF ptr = NULL THEN [k |-> k, val |-> 0 - EINVAL, halted |-> FALSE]
              ELSE through(SysWrite(k, fd, <<1>>, 1, TRUE))
         [] nr = NR_pipe ->
              LET r == SysPipe(k)
              IN IF r.val < 0 \/ present
                 THEN [k |-> r.k, val |-> r.val, halted |-> FALSE]
                 ELSE [k |-> fault(r.k).k, val |-> HANG, halted |-> fault(r.k).halted]

\* A system call whose pointer argument is NULL or not present.
syscall_handler ==
    /\ ~panic
    /\ ~halted
    /\ Counted
    /\ \E nr \in {NR_read, NR_write, NR_pipe}, fd \in Slots, ptr \in {NULL, ABSENT},
          low \in BOOLEAN :
        \E r \in {SyscallHandler(KState, nr, fd, ptr, low)} :
           /\ SetK(r.k)
           /\ halted' = r.halted
           /\ ret' = RetOut("syscall_handler", r.val, <<nr, ptr>>)
    /\ UNCHANGED <<vmm_vars, hist_vars, acpi, tty_vars, heap_vars, calls>>

sys_getpid ==
    /\ ~panic
    /\ Counted
    /\ ret' = Ret("sys_getpid", SysGetpid(KState))
    /\ UNCHANGED <<pmm_vars, mem, fd_vars, proc_vars, panic, sys_frame>>

sys_getppid ==
    /\ ~panic
    /\ Counted
    /\ ret' = Ret("sys_getppid", SysGetppid(KState))
    /\ UNCHANGED <<pmm_vars, mem, fd_vars, proc_vars, panic, sys_frame>>

sys_exit ==
    /\ ~panic
    /\ Counted
    /\ SetK(SysExit(KState))
    /\ ret' = Ret("sys_exit", 0)
    /\ UNCHANGED sys_frame

sys_open ==
    /\ ~panic
    /\ ~halted
    /\ Counted
    /\ \E inode \in {0, 2}, creat \in BOOLEAN :
        LET r == SysOpen(KState, inode, creat, O_RDONLY)
        IN /\ SetK(r.k)
           /\ ret' = Ret("sys_open", r.val)
    /\ UNCHANGED sys_frame

sys_close ==
    /\ ~panic
    /\ ~halted
    /\ Counted
    /\ \E fd \in (0 - 1) .. MAX_FDS :
        LET r == SysClose(KState, fd)
        IN /\ SetK(r.k)
           /\ ret' = Ret("sys_close", r.val)
    /\ UNCHANGED sys_frame

sys_pipe ==
    /\ ~panic
    /\ ~halted
    /\ Counted
    /\ LET r == SysPipe(KState)
       IN /\ SetK(r.k)
          /\ ret' = RetOut("sys_pipe", r.val, r.out)
    /\ UNCHANGED sys_frame

sys_dup ==
    /\ ~panic
    /\ Counted
    /\ RefsBelow(MaxRef)
    /\ \E oldfd \in (0 - 1) .. MAX_FDS :
        LET r == SysDup(KState, oldfd)
        IN /\ SetK(r.k)
           /\ ret' = Ret("sys_dup", r.val)
    /\ UNCHANGED sys_frame

sys_dup2 ==
    /\ ~panic
    /\ Counted
    /\ RefsBelow(MaxRef)
    /\ \E oldfd \in Slots, newfd \in 0 .. MAX_FDS, garbage \in Garbage :
        LET r == SysDup2(KState, oldfd, newfd, garbage)
        IN /\ SetK(r.k)
           /\ ret' = Ret("sys_dup2", r.val)
    /\ UNCHANGED sys_frame

sys_socket ==
    /\ ~panic
    /\ Counted
    /\ \E type \in {SOCK_STREAM, SOCK_DGRAM, 0} :
        LET r == SysSocket(KState, type)
        IN /\ SetK(r.k)
           /\ ret' = Ret("sys_socket", r.val)
    /\ UNCHANGED sys_frame

\* The file offsets stay within MaxIo.
OffsetsAllow(count) ==
    \A i \in Slots :
        (fd_table[i] # NULL /\ IsObj(mem, fd_table[i], "fd")) =>
            mem[fd_table[i]].offset + count <= MaxIo

sys_read ==
    /\ ~panic
    /\ Counted
    /\ \E fd \in Slots, count \in 0 .. MaxIo, c \in Bytes, ok \in BOOLEAN :
        /\ OffsetsAllow(count)
        /\ LET r == SysRead(KState, fd, count, c, ok)
           IN /\ SetK(r.k)
              /\ ret' = RetOut("sys_read", r.val, r.out)
    /\ UNCHANGED sys_frame

sys_write ==
    /\ ~panic
    /\ Counted
    /\ \E fd \in Slots, count \in 0 .. MaxIo, ok \in BOOLEAN :
        /\ OffsetsAllow(count)
        /\ LET r == SysWrite(KState, fd, <<1, 2>>, count, ok)
           IN /\ SetK(r.k)
              /\ ret' = RetOut("sys_write", r.val, r.out)
    /\ UNCHANGED sys_frame

(***************************************************************************)
(* The pipe of core/drivers/tty/pipe.c.  The pipe_t and its ring are       *)
(* objects malloc() placed in frames; state is the set of the flag bits    *)
(* that are set.                                                           *)
(***************************************************************************)
PIPE_BUFFER_SIZE == 2 ^ PipeSizeLog2

PIPE_STATE_OPEN == 1
PIPE_STATE_READABLE == 2
PIPE_STATE_WRITABLE == 4
PIPE_STATE_EOF == 8

\* a & b on naturals
RECURSIVE BitAnd(_, _)
BitAnd(a, b) ==
    IF a = 0 \/ b = 0 THEN 0
    ELSE (a % 2) * (b % 2) + 2 * BitAnd(a \div 2, b \div 2)

NewTtyPipe(buffer) ==
    [kind |-> "tpipe", buffer |-> buffer, read_pos |-> 0, write_pos |-> 0, count |-> 0,
     state |-> {PIPE_STATE_OPEN, PIPE_STATE_READABLE, PIPE_STATE_WRITABLE},
     readers |-> 0, writers |-> 0]

NewTtyRing == [kind |-> "tbuf", data |-> [i \in 0 .. (PIPE_BUFFER_SIZE - 1) |-> 0]]

\* pipe_create: [k, addr]
PipeCreate(k) ==
    LET mp == Malloc(k)
        mb == Malloc(mp.k)
    IN IF mp.addr = NULL THEN [k |-> k, addr |-> NULL]
       ELSE IF mb.addr = NULL
       THEN [k |-> Free(Store(mp.k, mp.addr, NewTtyPipe(NULL)), mp.addr), addr |-> NULL]
       ELSE [k |-> Store(Store(mb.k, mp.addr, NewTtyPipe(mb.addr)), mb.addr, NewTtyRing),
             addr |-> mp.addr]

\* The copy loop of pipe_read: n bytes from read_pos on.
RECURSIVE TtyTake(_, _, _)
TtyTake(data, pos, n) ==
    IF n = 0 THEN << >>
    ELSE <<data[pos]>> \o TtyTake(data, BitAnd(pos + 1, PIPE_BUFFER_SIZE - 1), n - 1)

\* The position after n steps of "pos = (pos + 1) & (PIPE_BUFFER_SIZE - 1)".
RECURSIVE TtyAdvance(_, _)
TtyAdvance(pos, n) ==
    IF n = 0 THEN pos ELSE TtyAdvance(BitAnd(pos + 1, PIPE_BUFFER_SIZE - 1), n - 1)

\* The store loop of pipe_write: the ring after the bytes of src went in.
RECURSIVE TtyPut(_, _, _)
TtyPut(data, pos, src) ==
    IF src = << >> THEN data
    ELSE TtyPut([data EXCEPT ![pos] = Head(src)],
                BitAnd(pos + 1, PIPE_BUFFER_SIZE - 1), Tail(src))

\* pipe_read with a non-NULL buf: [k, val, out].  On an empty pipe that has
\* a writer and no EOF flag the while loop never ends: val is HANG.
PipeRead(k, p, count) ==
    LET pd == k.mem[p]
        to_read == Min({count, pd.count})
    IN IF p = NULL THEN [k |-> k, val |-> 0 - 1, out |-> << >>]
       ELSE IF ~IsObj(k.mem, p, "tpipe") THEN [k |-> Panic(k), val |-> WILD, out |-> << >>]
       ELSE IF PIPE_STATE_READABLE \notin pd.state THEN [k |-> k, val |-> 0 - 1, out |-> << >>]
       ELSE IF pd.count = 0
       THEN IF pd.writers = 0 \/ PIPE_STATE_EOF \in pd.state
            THEN [k |-> k, val |-> 0, out |-> << >>]
            ELSE [k |-> Panic(k), val |-> HANG, out |-> << >>]
       ELSE IF ~IsObj(k.mem, pd.buffer, "tbuf") THEN [k |-> Panic(k), val |-> WILD, out |-> << >>]
       ELSE [k |-> [k EXCEPT !.mem[p].read_pos = TtyAdvance(pd.read_pos, to_read),
                             !.mem[p].count = pd.count - to_read],
             val |-> to_read,
             out |-> TtyTake(k.mem[pd.buffer].data, pd.read_pos, to_read)]

\* pipe_write with a non-NULL buf: [k, val].  Once the ring is full with
\* bytes still to go, the inner while loop never ends (readers cannot drop
\* to 0 inside it): val is HANG, the bytes that fitted are stored.
PipeWrite(k, p, buf, count) ==
    LET pd == k.mem[p]
        fits == Min({count, PIPE_BUFFER_SIZE - pd.count})
        k1 == [k EXCEPT !.mem[pd.buffer].data = TtyPut(@, pd.write_pos, Take(buf, fits)),
                        !.mem[p].write_pos = TtyAdvance(pd.write_pos, fits),
                        !.mem[p].count = pd.count + fits]
    IN IF p = NULL THEN [k |-> k, val |-> 0 - 1]
       ELSE IF ~IsObj(k.mem, p, "tpipe") THEN [k |-> Panic(k), val |-> WILD]
       ELSE IF PIPE_STATE_WRITABLE \notin pd.state THEN [k |-> k, val |-> 0 - 1]
       ELSE IF pd.readers = 0 THEN [k |-> k, val |-> 0 - 1]
       ELSE IF count = 0 THEN [k |-> k, val |-> 0]
       ELSE IF ~IsObj(k.mem, pd.buffer, "tbuf") THEN [k |-> Panic(k), val |-> WILD]
       ELSE IF fits < count THEN [k |-> Panic(k1), val |-> HANG]
       ELSE [k |-> k1, val |-> count]

\* pipe_add_reader
PipeAddReader(k, p) ==
    IF p = NULL THEN k
    ELSE IF ~IsObj(k.mem, p, "tpipe") THEN Panic(k)
    ELSE [k EXCEPT !.mem[p].readers = @ + 1,
                   !.mem[p].state = @ \cup {PIPE_STATE_READABLE}]

\* pipe_add_writer that takes a new writer for a fresh start of the stream.
PipeAddWriterReopens(k, p) ==
    IF p = NULL THEN k
    ELSE IF ~IsObj(k.mem, p, "tpipe") THEN Panic(k)
    ELSE [k EXCEPT !.mem[p].writers = @ + 1,
                   !.mem[p].state = (@ \cup {PIPE_STATE_WRITABLE}) \ {PIPE_STATE_EOF}]

\* pipe_add_writer
PipeAddWriter(k, p) ==
    IF p = NULL THEN k
    ELSE IF ~IsObj(k.mem, p, "tpipe") THEN Panic(k)
    ELSE [k EXCEPT !.mem[p].writers = @ + 1,
                   !.mem[p].state = @ \cup {PIPE_STATE_WRITABLE}]

\* pipe_remove_reader
PipeRemoveReader(k, p) ==
    IF p = NULL THEN k
    ELSE IF ~IsObj(k.mem, p, "tpipe") THEN Panic(k)
    ELSE IF k.mem[p].readers = 0 THEN k
    ELSE [k EXCEPT !.mem[p].readers = @ - 1,
                   !.mem[p].state = IF k.mem[p].readers = 1
                                    THEN @ \ {PIPE_STATE_READABLE} ELSE @]

\* pipe_remove_writer
PipeRemoveWriter(k, p) ==
    IF p = NULL THEN k
    ELSE IF ~IsObj(k.mem, p, "tpipe") THEN Panic(k)
    ELSE IF k.mem[p].writers = 0 THEN k
    ELSE [k EXCEPT !.mem[p].writers = @ - 1,
                   !.mem[p].state = IF k.mem[p].writers = 1
                                    THEN (@ \ {PIPE_STATE_WRITABLE}) \cup {PIPE_STATE_EOF}
                                    ELSE @]

(***************************************************************************)
(* Actions on the pipe the caller holds.                                   *)
(***************************************************************************)
tty_frame == <<vmm_vars, hist_vars, acpi, heap_vars, budget, halted, calls, pipe>>

pipe_read ==
    /\ ~panic
    /\ \E count \in 0 .. MaxIo :
        LET r == PipeRead(KState, pipe, count)
        IN /\ SetK(r.k)
           /\ ret' = RetOut("pipe_read", r.val, r.out)
    /\ UNCHANGED tty_frame

pipe_write ==
    /\ ~panic
    /\ \E count \in 0 .. MaxIo, src \in [1 .. MaxIo -> Bytes] :
        LET r == PipeWrite(KState, pipe, src, count)
        IN /\ SetK(r.k)
           /\ ret' = Ret("pipe_write", r.val)
    /\ UNCHANGED tty_frame

pipe_add_reader ==
    /\ ~panic
    /\ pipe # NULL => mem[pipe].readers < MaxCount
    /\ SetK(PipeAddReader(KState, pipe))
    /\ ret' = Ret("pipe_add_reader", 0)
    /\ UNCHANGED tty_frame

pipe_add_writer ==
    /\ ~panic
    /\ pipe # NULL => mem[pipe].writers < MaxCount
    /\ SetK(PipeAddWriter(KState, pipe))
    /\ ret' = Ret("pipe_add_writer", 0)
    /\ UNCHANGED tty_frame

pipe_remove_reader ==
    /\ ~panic
    /\ SetK(PipeRemoveReader(KState, pipe))
    /\ ret' = Ret("pipe_remove_reader", 0)
    /\ UNCHANGED tty_frame

pipe_remove_writer ==
    /\ ~panic
    /\ SetK(PipeRemoveWriter(KState, pipe))
    /\ ret' = Ret("pipe_remove_writer", 0)
    /\ UNCHANGED tty_frame

ZeroStats ==
    [total_size |-> 0, used_size |-> 0, free_size |-> 0, total_blocks |-> 0, free_blocks |-> 0]

(***************************************************************************)
(* The kernel heap, mm/heap.c.  A heap state h is [vm, start, blocks,      *)
(* stats]: the page tables and allocator it maps its pages with, heap_start,*)
(* the block headers by address and heap_statistics.  A header that        *)
(* merge_free_blocks absorbed is plain data of the surviving block and     *)
(* leaves blocks.                                                          *)
(***************************************************************************)
HEAP_BLOCK_MAGIC == 464367618
HEAP_PAGE_SIZE == 4096
BLOCK_FREE == 1
BLOCK_LAST == 2
\* sizeof(struct heap_block), packed: 3 * uint32_t + 2 pointers
HEADER_SIZE == 28
HEAP_MIN_BLOCK_SIZE == HEADER_SIZE

HeapState ==
    [vm |-> VmmState, start |-> heap_start, blocks |-> heap_blocks, stats |-> heap_statistics]

SetHeap(h) ==
    /\ tables' = h.vm.tables
    /\ SetPmm(h.vm.pm)
    /\ heap_start' = h.start
    /\ heap_blocks' = h.blocks
    /\ heap_statistics' = h.stats

HeapBlock(size, flags, next, prev) ==
    [magic |-> HEAP_BLOCK_MAGIC, size |-> size, flags |-> flags, next |-> next, prev |-> prev]

\* Arithmetic in size_t and on pointers wraps at 2^SizeBits.
SIZE_MODULUS == 2 ^ SizeBits

SizeT(n) == n % SIZE_MODULUS

\* find_free_block: the walk from current on.
RECURSIVE FindFreeBlock(_, _, _)
FindFreeBlock(blocks, current, size) ==
    IF current = NULL THEN NULL
    ELSE IF BLOCK_FREE \in blocks[current].flags /\ blocks[current].size >= SizeT(size + HEADER_SIZE)
    THEN current
    ELSE IF BLOCK_LAST \in blocks[current].flags THEN NULL
    ELSE FindFreeBlock(blocks, blocks[current].next, size)

\* expand_heap: the loop "while (!(last->flags & BLOCK_LAST)) last = last->next".
RECURSIVE LastBlock(_, _)
LastBlock(blocks, last) ==
    IF BLOCK_LAST \in blocks[last].flags THEN last ELSE LastBlock(blocks, blocks[last].next)

\* expand_heap, cleanup loop: vmm_unmap_page of the pages 0 .. i-1.
RECURSIVE UnmapPages(_, _, _, _)
UnmapPages(tbls, root, base, i) ==
    IF i = 0 THEN tbls
    ELSE UnmapPages(VmmUnmapPage(tbls, root, base + (i - 1) * HEAP_PAGE_SIZE).tables,
                    root, base, i - 1)

\* expand_heap, mapping loop for the pages i .. n-1: [vm, ok].
RECURSIVE MapPages(_, _, _, _, _)
MapPages(vm, root, base, i, n) ==
    IF i >= n THEN [vm |-> vm, ok |-> TRUE]
    ELSE Bind(PmmAllocPage(vm.pm), LAMBDA p :
         IF p.addr = NULL
         THEN [vm |-> [vm EXCEPT !.tables = UnmapPages(vm.tables, root, base, i)],
               ok |-> FALSE]
         ELSE Bind(VmmMapPage([vm EXCEPT !.pm = p.pm], root, base + i * HEAP_PAGE_SIZE,
                              p.addr, {PTE_PRESENT, PTE_WRITABLE}), LAMBDA r :
         IF r.st # "ok"
         THEN [vm |-> [r.vm EXCEPT !.tables = UnmapPages(r.vm.tables, root, base, i)],
               ok |-> FALSE]
         ELSE MapPages(r.vm, root, base, i + 1, n)))

\* expand_heap: [h, block]
ExpandHeap(h, root, size) ==
    LET pages_needed == SizeT(size + HEADER_SIZE + HEAP_PAGE_SIZE - 1) \div HEAP_PAGE_SIZE
        last == LastBlock(h.blocks, h.start)
        new_block == last + h.blocks[last].size
        new_size == pages_needed * HEAP_PAGE_SIZE
        blocks1 == PutKey([h.blocks EXCEPT ![last].flags = @ \ {BLOCK_LAST},
                                           ![last].next = new_block],
                          new_block,
                          HeapBlock(new_size, {BLOCK_FREE, BLOCK_LAST}, NULL, last))
    IN Bind(PmmAllocPage(h.vm.pm), LAMBDA new_mem :
       IF new_mem.addr = NULL THEN [h |-> h, block |-> NULL]
       ELSE Bind(MapPages([h.vm EXCEPT !.pm = new_mem.pm], root, new_block, 0, pages_needed),
                 LAMBDA m :
       IF ~m.ok THEN [h |-> [h EXCEPT !.vm = m.vm], block |-> NULL]
       ELSE [h |-> [h EXCEPT !.vm = m.vm,
                             !.blocks = blocks1,
                             !.stats.total_size = @ + new_size,
                             !.stats.free_size = @ + new_size,
                             !.stats.total_blocks = @ + 1,
                             !.stats.free_blocks = @ + 1],
             block |-> new_block]))

\* split_block.  When size + sizeof(struct heap_block) wraps below the size
\* of a header, the header written at new_block lies over the prev field of
\* block (its last 8 bytes), which then holds no address of a block.
SplitBlock(h, block, size) ==
    LET b == h.blocks[block]
        remaining == SizeT(b.size - size - HEADER_SIZE)
        new_block == SizeT(block + size + HEADER_SIZE)
        nb == HeapBlock(remaining,
                        {BLOCK_FREE} \cup (b.flags \cap {BLOCK_LAST}), b.next, block)
        blocks1 == IF b.next # NULL THEN [h.blocks EXCEPT ![b.next].prev = new_block]
                   ELSE h.blocks
        blocks2 == PutKey([blocks1 EXCEPT ![block].next = new_block,
                                          ![block].size = SizeT(size + HEADER_SIZE),
                                          ![block].flags = @ \ {BLOCK_LAST},
                                          ![block].prev =
                                              IF new_block < block + HEADER_SIZE
                                              THEN WILD ELSE @],
                          new_block, nb)
    IN IF remaining < HEAP_MIN_BLOCK_SIZE THEN h
       ELSE [h EXCEPT !.blocks = blocks2,
                      !.stats.total_blocks = @ + 1,
                      !.stats.free_blocks = @ + 1]

\* merge_free_blocks that absorbs nothing.
MergeFreeBlocksNone(h, block) == h

\* merge_free_blocks
RECURSIVE MergeFreeBlocks(_, _)
MergeFreeBlocks(h, block) ==
    LET b == h.blocks[block]
        next == b.next
        n == h.blocks[next]
        blocks1 == [h.blocks EXCEPT ![block].size = b.size + n.size,
                                    ![block].flags = @ \cup (n.flags \cap {BLOCK_LAST}),
                                    ![block].next = n.next]
        blocks2 == IF n.next # NULL THEN [blocks1 EXCEPT ![n.next].prev = block] ELSE blocks1
    IN IF next = NULL \/ BLOCK_FREE \notin n.flags THEN h
       ELSE Bind([h EXCEPT !.blocks = DropKey(blocks2, next),
                           !.stats.total_blocks = @ - 1,
                           !.stats.free_blocks = @ - 1],
                 LAMBDA h1 : MergeFreeBlocks(h1, block))

\* heap_init: [h, ok]
HeapInit(vm, root) ==
    LET none == [vm |-> vm, start |-> NULL, blocks |-> << >>, stats |-> ZeroStats]
    IN Bind(PmmAllocPage(vm.pm), LAMBDA p :
       IF p.addr = NULL THEN [h |-> none, ok |-> FALSE]
       ELSE Bind(VmmMapPage([vm EXCEPT !.pm = p.pm], root, p.addr, p.addr,
                            {PTE_PRESENT, PTE_WRITABLE}), LAMBDA r :
       IF r.st # "ok"
       THEN [h |-> [none EXCEPT !.vm = [r.vm EXCEPT !.pm = PmmFreePage(r.vm.pm, p.addr)]],
             ok |-> FALSE]
       ELSE [h |-> [vm |-> r.vm, start |-> p.addr,
                    blocks |-> PutKey(<< >>, p.addr,
                                      HeapBlock(HEAP_PAGE_SIZE, {BLOCK_FREE, BLOCK_LAST},
                                                NULL, NULL)),
                    stats |-> [total_size |-> HEAP_PAGE_SIZE, used_size |-> 0,
                               free_size |-> HEAP_PAGE_SIZE, total_blocks |-> 1,
                               free_blocks |-> 1]],
             ok |-> TRUE]))

\* (size + 7) & ~7
Align8(size) == (SizeT(size + 7) \div 8) * 8

\* heap_alloc: [h, ptr]
HeapAlloc(h, root, size0) ==
    LET size == Align8(size0)
        found == FindFreeBlock(h.blocks, h.start, size)
    IN IF size0 = 0 THEN [h |-> h, ptr |-> NULL]
       ELSE Bind(IF found # NULL THEN [h |-> h, block |-> found] ELSE ExpandHeap(h, root, size),
                 LAMBDA e :
       IF e.block = NULL THEN [h |-> e.h, ptr |-> NULL]
       ELSE Bind(SplitBlock(e.h, e.block, size), LAMBDA h1 :
            LET bsize == h1.blocks[e.block].size
            IN [h |-> [h1 EXCEPT !.blocks[e.block].flags = @ \ {BLOCK_FREE},
                                 !.stats.used_size = @ + bsize,
                                 !.stats.free_size = @ - bsize,
                                 !.stats.free_blocks = @ - 1],
                ptr |-> e.block + HEADER_SIZE]))

\* heap_free without the merge into a free predecessor.
HeapFreeForwardOnly(h, ptr) ==
    LET block == ptr - HEADER_SIZE
        bsize == h.blocks[block].size
        h1 == [h EXCEPT !.blocks[block].flags = @ \cup {BLOCK_FREE},
                        !.stats.used_size = @ - bsize,
                        !.stats.free_size = @ + bsize,
                        !.stats.free_blocks = @ + 1]
    IN IF ptr = NULL THEN h
       ELSE IF block \notin DOMAIN h.blocks THEN h
       ELSE IF h.blocks[block].magic # HEAP_BLOCK_MAGIC THEN h
       ELSE MergeFreeBlocks(h1, block)

\* heap_free.  A ptr that is not preceded by a header fails the magic test.
HeapFree(h, ptr) ==
    LET block == ptr - HEADER_SIZE
        bsize == h.blocks[block].size
        h1 == [h EXCEPT !.blocks[block].flags = @ \cup {BLOCK_FREE},
                        !.stats.used_size = @ - bsize,
                        !.stats.free_size = @ + bsize,
                        !.stats.free_blocks = @ + 1]
    IN IF ptr = NULL THEN h
       ELSE IF block \notin DOMAIN h.blocks THEN h
       ELSE IF h.blocks[block].magic # HEAP_BLOCK_MAGIC THEN h
       ELSE Bind(MergeFreeBlocks(h1, block), LAMBDA h2 :
            LET prev == h2.blocks[block].prev
            IN IF prev # NULL /\ BLOCK_FREE \in h2.blocks[prev].flags
               THEN MergeFreeBlocks(h2, prev)
               ELSE h2)

\* heap_check, the walk: what it has summed up when it stops, ok FALSE when a
\* magic or link test failed.
RECURSIVE CheckWalk(_, _, _)
CheckWalk(blocks, current, acc) ==
    IF current = NULL THEN acc
    ELSE LET b == blocks[current]
             free == BLOCK_FREE \in b.flags
             acc1 == [acc EXCEPT !.total_size = @ + b.size,
                                 !.total_blocks = @ + 1,
                                 !.free_size = IF free THEN @ + b.size ELSE @,
                                 !.free_blocks = IF free THEN @ + 1 ELSE @,
                                 !.used_size = IF free THEN @ ELSE @ + b.size]
         IN IF current \notin DOMAIN blocks \/ b.magic # HEAP_BLOCK_MAGIC
            THEN [acc EXCEPT !.ok = FALSE]
            ELSE IF b.next # NULL /\ (b.next \notin DOMAIN blocks \/ blocks[b.next].prev # current)
            THEN [acc EXCEPT !.ok = FALSE]
            ELSE IF b.prev # NULL /\ (b.prev \notin DOMAIN blocks \/ blocks[b.prev].next # current)
            THEN [acc EXCEPT !.ok = FALSE]
            ELSE IF BLOCK_LAST \in b.flags THEN acc1
            ELSE CheckWalk(blocks, b.next, acc1)

\* heap_check
HeapCheck(h) ==
    LET w == CheckWalk(h.blocks, h.start,
                       [ok |-> TRUE, total_size |-> 0, used_size |-> 0, free_size |-> 0,
                        total_blocks |-> 0, free_blocks |-> 0])
    IN /\ w.ok
       /\ w.total_size = h.stats.total_size
       /\ w.used_size = h.stats.used_size
       /\ w.free_size = h.stats.free_size
       /\ w.total_blocks = h.stats.total_blocks
       /\ w.free_blocks = h.stats.free_blocks

(***************************************************************************)
(* Actions of the heap.  The caller frees pointers heap_alloc returned and *)
(* it still holds, or NULL.                                                *)
(***************************************************************************)
heap_frame ==
    <<current_pml4, mapped, next_mmap_addr, brk_vars, mem, fd_vars, proc_vars, hist_vars, acpi, tty_vars,
      budget, halted,
      calls, panic>>

\* Request sizes: served from the first page, from a split remainder, and one
\* that no block of a one-page heap can hold.
HeapSizes == {MinSize, HEAP_PAGE_SIZE \div 2, HEAP_PAGE_SIZE - HEADER_SIZE + 4}

heap_alloc ==
    /\ ~panic
    /\ Cardinality(held) < MaxLive
    /\ \E size \in HeapSizes \cup {0} :
        \E r \in {HeapAlloc(HeapState, current_pml4, size)} :
           /\ SetHeap(r.h)
           /\ held' = IF r.ptr = NULL THEN held ELSE held \cup {r.ptr}
           /\ ret' = Ret("heap_alloc", r.ptr)
    /\ UNCHANGED heap_frame

heap_free ==
    /\ ~panic
    /\ \E ptr \in held \cup {NULL} :
        /\ \E h \in {HeapFree(HeapState, ptr)} : SetHeap(h)
        /\ held' = held \ {ptr}
        /\ ret' = Ret("heap_free", ptr)
    /\ UNCHANGED heap_frame

\* heap_alloc by a caller that holds no pointer: the first half of a pair.
heap_alloc_pair ==
    /\ ~panic
    /\ held = {}
    /\ \E size \in MinSize .. MaxSize :
        \E r \in {HeapAlloc(HeapState, current_pml4, size)} :
           /\ SetHeap(r.h)
           /\ held' = IF r.ptr = NULL THEN held ELSE held \cup {r.ptr}
           /\ ret' = Ret("heap_alloc", r.ptr)
    /\ UNCHANGED heap_frame

\* Requests of any size_t: small ones, and the largest ones, for which
\* size + 7 or size + sizeof(struct heap_block) wraps.
WideSizes == {MinSize, HEAP_PAGE_SIZE \div 2, SIZE_MODULUS - 8, SIZE_MODULUS - 1}

\* heap_alloc of any size.  A caller that was handed fewer bytes than it
\* asked for writes past its block; what the kernel does after that is not
\* followed.
heap_alloc_any ==
    /\ ~panic
    /\ Cardinality(held) < MaxLive
    /\ \E size \in WideSizes :
        \E r \in {HeapAlloc(HeapState, current_pml4, size)} :
           /\ SetHeap(r.h)
           /\ held' = IF r.ptr = NULL THEN held ELSE held \cup {r.ptr}
           /\ ret' = RetOut("heap_alloc", r.ptr, <<size>>)
           /\ panic' = (r.ptr # NULL /\ r.h.blocks[r.ptr - HEADER_SIZE].size < size + HEADER_SIZE)
    /\ UNCHANGED <<current_pml4, mapped, next_mmap_addr, brk_vars, mem, fd_vars, proc_vars, hist_vars, acpi,
                   tty_vars, budget,
                   halted, calls>>

(***************************************************************************)
(* ACPI table discovery, core/acpi.c.  acpi is [fw, xsdt, rsdt, madt,      *)
(* acpi_initialized]: fw is what the firmware left in memory (the RSDP the *)
(* bootloader reports and the tables by address), the rest are the statics *)
(* of acpi.c.  A table pointer is the table's address or NO_TABLE.         *)
(***************************************************************************)
NO_TABLE == "NULL"
ACPI_MADT_SIGNATURE == "APIC"
ACPI_MCFG_SIGNATURE == "MCFG"

\* A system description table: sum is the sum of its bytes modulo 256,
\* entries the table pointers an XSDT or RSDT lists.
AcpiTable(signature, sum, entries, local_apic_address) ==
    [signature |-> signature, sum |-> sum, entries |-> entries,
     local_apic_address |-> local_apic_address]

\* Memory without ACPI tables: the bootloader reports no RSDP.
NoFirmware ==
    [rsdp |-> NO_TABLE, signature_ok |-> FALSE, revision |-> 0,
     xsdt_address |-> NO_TABLE, rsdt_address |-> NO_TABLE, tables |-> << >>]

\* The statics of acpi.c before acpi_init.
AcpiStatics(fw) ==
    [fw |-> fw, xsdt |-> NO_TABLE, rsdt |-> NO_TABLE, madt |-> NO_TABLE,
     acpi_initialized |-> FALSE]

\* validate_table
ValidateTable(fw, table) ==
    IF table = NO_TABLE THEN FALSE ELSE fw.tables[table].sum = 0

\* The loop of find_table_xsdt and find_table_rsdt over the entries from i on.
RECURSIVE FindInEntries(_, _, _, _)
FindInEntries(fw, entries, i, signature) ==
    IF i > Len(entries) THEN NO_TABLE
    ELSE IF fw.tables[entries[i]].signature = signature /\ ValidateTable(fw, entries[i])
    THEN entries[i]
    ELSE FindInEntries(fw, entries, i + 1, signature)

\* find_table_xsdt / find_table_rsdt on the table pointer sdt
FindTableSdt(fw, sdt, signature) ==
    IF sdt = NO_TABLE THEN NO_TABLE
    ELSE FindInEntries(fw, fw.tables[sdt].entries, 1, signature)

\* acpi_find_table
AcpiFindTable(a, signature) ==
    LET table == FindTableSdt(a.fw, a.xsdt, signature)
    IN IF ~a.acpi_initialized THEN NO_TABLE
       ELSE IF table # NO_TABLE THEN table
       ELSE FindTableSdt(a.fw, a.rsdt, signature)

\* acpi_init
AcpiInit(a) ==
    LET fw == a.fw
        a1 == IF fw.revision >= 2 /\ fw.xsdt_address # NO_TABLE
              THEN [a EXCEPT !.xsdt = IF ValidateTable(fw, fw.xsdt_address)
                                      THEN fw.xsdt_address ELSE NO_TABLE]
              ELSE a
        use_rsdt == a1.xsdt = NO_TABLE /\ fw.rsdt_address # NO_TABLE
        a2 == IF use_rsdt THEN [a1 EXCEPT !.rsdt = fw.rsdt_address] ELSE a1
    IN IF a.acpi_initialized THEN a
       ELSE IF fw.rsdp = NO_TABLE THEN a
       ELSE IF ~fw.signature_ok THEN a
       ELSE IF use_rsdt /\ ~ValidateTable(fw, fw.rsdt_address)
       THEN [a1 EXCEPT !.rsdt = NO_TABLE]
       ELSE [a2 EXCEPT !.madt = AcpiFindTable(a2, ACPI_MADT_SIGNATURE),
                       !.acpi_initialized = TRUE]

\* acpi_get_madt
AcpiGetMadt(a) == a.madt

\* acpi_get_local_apic_address
AcpiGetLocalApicAddress(a) ==
    IF a.madt = NO_TABLE THEN NULL ELSE a.fw.tables[a.madt].local_apic_address

(***************************************************************************)
(* Initial states and specifications.                                      *)
(***************************************************************************)
\* Static storage before pmm_init ran: no bitmap, all counters 0.
PmmBoot ==
    /\ bitmap = [p \in BitmapBits |-> TRUE]
    /\ bitmap_size = 0
    /\ total_pages = 0
    /\ free_pages = 0

\* Static storage before vmm_init ran: no root table.
VmmBoot ==
    /\ tables = << >>
    /\ current_pml4 = NULL
    /\ mapped = << >>
    /\ next_mmap_addr = MMAP_BASE
    /\ program_break = NULL
    /\ initial_break = NULL

\* Static storage of process.c, syscalls.c and net.c: no process, every
\* descriptor slot NULL, every socket zeroed.
KernelBoot ==
    /\ mem = << >>
    /\ fd_table = [i \in Slots |-> NULL]
    /\ socket_pool = [i \in 0 .. (NET_MAX_SOCKETS - 1) |-> ZeroSocket]
    /\ current_process = NULL
    /\ process_list = NULL
    /\ next_pid = 1
    /\ process_count = 0
    /\ ready_queue_head = NULL
    /\ ready_queue_tail = NULL

\* No pipe_t created, heap_init not run, nothing traced.
OtherBoot ==
    /\ ticks = 0 - 1
    /\ acpi = AcpiStatics(NoFirmware)
    /\ switches = << >>
    /\ lineage = NoLineage
    /\ halted = FALSE
    /\ calls = << >>
    /\ pipe = NULL
    /\ heap_start = NULL
    /\ heap_blocks = << >>
    /\ heap_statistics = ZeroStats
    /\ held = {}

\* The allocator as pmm_init leaves it on one usable region from address 0.
BootMap == <<MemEntry(TRUE, 0, TotalPages * PAGE_SIZE)>>

\* The variables of the kernel hold the state k.
InitK(k) ==
    /\ bitmap = k.pm.bitmap
    /\ bitmap_size = k.pm.bitmap_size
    /\ total_pages = k.pm.total_pages
    /\ free_pages = k.pm.free_pages
    /\ mem = k.mem
    /\ fd_table = k.fd_table
    /\ socket_pool = k.socket_pool
    /\ current_process = k.current_process
    /\ process_list = k.process_list
    /\ next_pid = k.next_pid
    /\ process_count = k.process_count
    /\ ready_queue_head = k.ready_queue_head
    /\ ready_queue_tail = k.ready_queue_tail
    /\ panic = k.panic

\* The kernel after pmm_init, process_init and scheduler_init.
BootK ==
    [pm |-> PmmInit(BootMap), mem |-> << >>, fd_table |-> [i \in Slots |-> NULL],
     socket_pool |-> [i \in 0 .. (NET_MAX_SOCKETS - 1) |-> ZeroSocket],
     current_process |-> NULL, process_list |-> NULL, next_pid |-> 1,
     process_count |-> 0, ready_queue_head |-> NULL, ready_queue_tail |-> NULL,
     panic |-> FALSE]

\* The address space as vmm_init leaves it: the allocator initialised, the
\* root a zeroed frame from create_page_table that holds the copy of a
\* bootloader root without entries.
VmmReady ==
    LET c == CreatePageTable([tables |-> << >>, pm |-> PmmInit(BootMap)])
    IN /\ tables = c.vm.tables
       /\ bitmap = c.vm.pm.bitmap
       /\ bitmap_size = c.vm.pm.bitmap_size
       /\ total_pages = c.vm.pm.total_pages
       /\ free_pages = c.vm.pm.free_pages
       /\ current_pml4 = c.addr
       /\ mapped = << >>
       /\ next_mmap_addr = MMAP_BASE
       /\ program_break = NULL
       /\ initial_break = NULL

InitPmm ==
    /\ PmmBoot /\ VmmBoot /\ KernelBoot /\ OtherBoot
    /\ budget = 0 - 1
    /\ panic = FALSE
    /\ ret = Ret("boot", 0)

NextPmm ==
    \/ pmm_init
    \/ pmm_alloc_page
    \/ pmm_alloc_pages
    \/ pmm_free_page
    \/ pmm_free_pages

SpecPmm == InitPmm /\ [][NextPmm]_vars

InitVmm ==
    /\ VmmReady /\ KernelBoot /\ OtherBoot
    /\ budget = 0 - 1
    /\ panic = FALSE
    /\ ret = Ret("boot", 0)

NextVmm ==
    \/ vmm_map_page
    \/ vmm_unmap_page
    \/ vmm_get_phys_addr

SpecVmm == InitVmm /\ [][NextVmm]_vars

InitSched ==
    /\ InitK(BootK) /\ VmmBoot /\ OtherBoot
    /\ budget = 0 - 1
    /\ ret = Ret("boot", 0)

NextSched ==
    \/ process_create
    \/ process_switch
    \/ scheduler_add
    \/ scheduler_remove
    \/ scheduler_next
    \/ scheduler_tick
    \/ sys_fork
    \/ sys_exit

SpecSched == InitSched /\ [][NextSched]_vars

\* The kernel with one process made current: process_create, then
\* process_switch to it.
InitFd ==
    LET c == ProcessCreate(BootK, 1)
    IN /\ InitK(ProcessSwitch(c.k, c.addr)) /\ VmmBoot /\ OtherBoot
       /\ budget = MaxCalls
       /\ ret = Ret("boot", 0)

NextFd ==
    \/ sys_open
    \/ sys_close
    \/ sys_pipe
    \/ sys_dup
    \/ sys_dup2
    \/ sys_socket
    \/ sys_fork
    \/ sys_exit

SpecFd == InitFd /\ [][NextFd]_vars

\* Processes and the system calls they make before any of them closes a
\* descriptor, from the kernel with one process current.
NextProc ==
    \/ sys_fork
    \/ process_switch
    \/ sys_getpid
    \/ sys_getppid
    \/ sys_open
    \/ sys_write

SpecProc == InitFd /\ [][NextProc]_vars

\* Processes that are created, queued, switched to and ticked, and the CPU
\* exceptions raised while they run; a halted CPU executes nothing more.
NextExc ==
    \/ exception
    \/ process_create
    \/ scheduler_add
    \/ process_switch
    \/ scheduler_tick

SpecExc == InitSched /\ [][NextExc]_vars

\* The pipes of sys_pipe, from the kernel after boot.
NextSysPipe ==
    \/ sys_pipe
    \/ sys_read
    \/ sys_write
    \/ sys_close

InitSysPipe ==
    /\ InitK(BootK) /\ VmmBoot /\ OtherBoot
    /\ budget = MaxCalls + 1
    /\ ret = Ret("boot", 0)

SpecSysPipe == InitSysPipe /\ [][NextSysPipe]_vars

\* System calls that are handed bad pointers among calls that open and
\* close descriptors, from the kernel after boot.
NextSyscall ==
    \/ syscall_handler
    \/ sys_open
    \/ sys_pipe
    \/ sys_close

SpecSyscall == InitSysPipe /\ [][NextSyscall]_vars

\* The kernel after boot and one pipe_create.
InitTty ==
    LET c == PipeCreate(BootK)
    IN /\ InitK(c.k) /\ VmmBoot
       /\ ticks = 0 - 1
       /\ acpi = AcpiStatics(NoFirmware)
       /\ switches = << >>
       /\ lineage = NoLineage
       /\ halted = FALSE
       /\ calls = << >>
       /\ pipe = c.addr
       /\ heap_start = NULL
       /\ heap_blocks = << >>
       /\ heap_statistics = ZeroStats
       /\ held = {}
       /\ budget = 0 - 1
       /\ ret = Ret("pipe_create", c.addr)

NextTty ==
    \/ pipe_read
    \/ pipe_write
    \/ pipe_add_reader
    \/ pipe_add_writer
    \/ pipe_remove_reader
    \/ pipe_remove_writer

SpecTty == InitTty /\ [][NextTty]_vars

\* The kernel after pmm_init, vmm_init and a heap_init that returned true.
\* The state heap_init leaves; limit is the number of counted calls that are
\* followed, 0 - 1 for no limit.
HeapReady(limit) ==
    \E c \in {CreatePageTable([tables |-> << >>, pm |-> PmmInit(BootMap)])} :
    \E i \in {HeapInit(c.vm, c.addr)} :
       /\ tables = i.h.vm.tables
       /\ bitmap = i.h.vm.pm.bitmap
       /\ bitmap_size = i.h.vm.pm.bitmap_size
       /\ total_pages = i.h.vm.pm.total_pages
       /\ free_pages = i.h.vm.pm.free_pages
       /\ current_pml4 = c.addr
       /\ mapped = << >>
       /\ next_mmap_addr = MMAP_BASE
       /\ program_break = NULL
       /\ initial_break = NULL
       /\ heap_start = i.h.start
       /\ heap_blocks = i.h.blocks
       /\ heap_statistics = i.h.stats
       /\ held = {}
       /\ KernelBoot
       /\ ticks = 0 - 1
       /\ acpi = AcpiStatics(NoFirmware)
       /\ switches = << >>
       /\ lineage = NoLineage
       /\ halted = FALSE
       /\ calls = << >>
       /\ pipe = NULL
       /\ budget = limit
       /\ panic = FALSE
       /\ ret = Ret("heap_init", IF i.ok THEN 1 ELSE 0)

InitHeap == HeapReady(0 - 1)

NextHeap ==
    \/ heap_alloc
    \/ heap_free

SpecHeap == InitHeap /\ [][NextHeap]_vars

\* Alternating heap_alloc / heap_free pairs from heap_init.
NextHeapPairs ==
    \/ heap_alloc_pair
    \/ heap_free

SpecHeapPairs == InitHeap /\ [][NextHeapPairs]_vars

\* heap_alloc of any size_t and heap_free from heap_init.
NextHeapWide ==
    \/ heap_alloc_any
    \/ heap_free

SpecHeapWide == InitHeap /\ [][NextHeapWide]_vars

\* Process A (pid 1) current with time_used 0 and process B (pid 2) alone on
\* the ready queue, both with the slice process_create sets; the trace of
\* current processes starts with A.
InitTick ==
    LET a == ProcessCreate(BootK, 1)
        b == ProcessCreate(a.k, 1)
        k0 == SchedulerAdd(ProcessSwitch(b.k, a.addr), b.addr)
        k == [k0 EXCEPT !.mem[a.addr].time_slice = DEFAULT_TIME_SLICE,
                        !.mem[b.addr].time_slice = DEFAULT_TIME_SLICE]
    IN /\ InitK(k) /\ VmmBoot
       /\ ticks = 0
       /\ acpi = AcpiStatics(NoFirmware)
       /\ switches = <<k.mem[a.addr].pid>>
       /\ lineage = NoLineage
       /\ halted = FALSE
       /\ calls = << >>
       /\ pipe = NULL
       /\ heap_start = NULL
       /\ heap_blocks = << >>
       /\ heap_statistics = ZeroStats
       /\ held = {}
       /\ budget = 0 - 1
       /\ ret = Ret("boot", 0)

NextTick == scheduler_tick

SpecTick == InitTick /\ [][NextTick]_vars

(***************************************************************************)
(* C1: after pmm_init and any sequence of allocator calls, free_pages is   *)
(* the number of clear bits over the page indices [0, total_pages), i.e.   *)
(* the counter agrees with what bitmap_test reports frame by frame.        *)
(***************************************************************************)
ClearBits == {p \in BitmapBits : p < total_pages /\ ~bitmap_test(bitmap, p)}

C1_FreeCounterMatchesBitmap ==
    total_pages > 0 => free_pages = Cardinality(ClearBits)

\* pmm_free_pages has just released a frame that lies between two frames
\* still handed out: the allocator has served allocations from the scanned
\* range and taken one of them back.
C1_Witness ==
    /\ total_pages > BITS_PER_ENTRY + 2
    /\ ret.op = "pmm_free_pages"
    /\ free_pages > 0
    /\ bitmap_test(bitmap, BITS_PER_ENTRY)
    /\ ~bitmap_test(bitmap, BITS_PER_ENTRY + 1)
    /\ bitmap_test(bitmap, BITS_PER_ENTRY + 2)

(***************************************************************************)
(* C2: every virtual page v that a successful vmm_map_page(v, p, f) mapped *)
(* translates to exactly p (vmm_get_phys_addr(v) = p) until v is remapped  *)
(* or unmapped, for every flag combination the callers pass.               *)
(***************************************************************************)
C2_TranslateReturnsMappedPhys ==
    current_pml4 # NULL =>
        \A v \in DOMAIN mapped : VmmGetPhysAddr(tables, current_pml4, v) = mapped[v]

(***************************************************************************)
(* C3: in every reachable state of the scheduler each process on the       *)
(* ready queue has state READY, the current process has state RUNNING,     *)
(* and no process is both the current process and on the ready queue.      *)
(***************************************************************************)
\* The processes linked from p on through next.
RECURSIVE Chain(_, _, _)
Chain(m, p, seen) ==
    IF p = NULL \/ p \in seen \/ ~IsObj(m, p, "proc") THEN seen
    ELSE Chain(m, m[p].next, seen \cup {p})

ReadyQueue == Chain(mem, ready_queue_head, {})

C3_SchedulerStates ==
    ~panic =>
        /\ \A p \in ReadyQueue : mem[p].state = PROCESS_STATE_READY
        /\ current_process # NULL => mem[current_process].state = PROCESS_STATE_RUNNING
        /\ current_process \notin ReadyQueue

(***************************************************************************)
(* C4: in every reachable state of the descriptor table each populated     *)
(* slot has refcount >= 1 and its type tag (FILE, SOCKET, PIPE, DIR)       *)
(* matches the kind of object its payload refers to.                       *)
(***************************************************************************)
\* The frame at a is in use and holds an object of the given kind.
LiveObj(k, a, kind) ==
    /\ IsObj(k.mem, a, kind)
    /\ bitmap_test(k.pm.bitmap, a \div PAGE_SIZE)

\* The payload of descriptor d is what its type tag says.
PayloadMatches(k, d) ==
    CASE d.type = FD_TYPE_FILE -> d.private_data = NULL
      [] d.type = FD_TYPE_DIR -> d.private_data = NULL
      [] d.type = FD_TYPE_SOCKET -> LiveObj(k, d.private_data, "sock")
      [] d.type = FD_TYPE_PIPE ->
            LiveObj(k, d.private_data, "pipe")
                /\ LiveObj(k, k.mem[d.private_data].buffer, "buf")
      [] OTHER -> FALSE

C4_SlotsCountedAndTagged ==
    ~panic =>
        \A i \in Slots :
            fd_table[i] # NULL =>
                /\ LiveObj(KState, fd_table[i], "fd")
                /\ mem[fd_table[i]].refcount >= 1
                /\ PayloadMatches(KState, mem[fd_table[i]])

(***************************************************************************)
(* C5: for any open descriptor fd, after n = sys_dup(fd) followed by       *)
(* sys_close(fd), slot n is still populated, still refers to the original  *)
(* payload, which has not been torn down, and has refcount 1.              *)
(***************************************************************************)
C5_DupThenCloseOriginal ==
    ~panic =>
        \A fd \in Slots :
            (fd_table[fd] # NULL /\ LiveObj(KState, fd_table[fd], "fd")) =>
                LET d == SysDup(KState, fd)
                    c == SysClose(d.k, fd)
                    n == c.k.fd_table[d.val]
                IN d.val >= 0 =>
                    /\ ~c.k.panic
                    /\ n # NULL
                    /\ LiveObj(c.k, n, "fd")
                    /\ c.k.mem[n].type = mem[fd_table[fd]].type
                    /\ c.k.mem[n].inode = mem[fd_table[fd]].inode
                    /\ c.k.mem[n].private_data = mem[fd_table[fd]].private_data
                    /\ PayloadMatches(c.k, c.k.mem[n])
                    /\ c.k.mem[n].refcount = 1

(***************************************************************************)
(* C6: on an empty pipe with a reader and a writer, at every ring          *)
(* position, writing k bytes (k within the capacity) and then reading k    *)
(* bytes returns k both times and yields the written bytes in order, both  *)
(* through pipe_write / pipe_read and through sys_write / sys_read on the  *)
(* descriptor pair of a sys_pipe.                                          *)
(***************************************************************************)
\* The buffers a writer may pass.
Sources == [1 .. MaxIo -> Bytes]

\* A tty pipe with one reader and one writer, empty, its positions at pos.
TtyPipeAt(pos) ==
    LET c == PipeCreate(BootK)
        k == PipeAddWriter(PipeAddReader(c.k, c.addr), c.addr)
    IN [k |-> [k EXCEPT !.mem[c.addr].read_pos = pos, !.mem[c.addr].write_pos = pos],
        addr |-> c.addr]

C6_TtyRoundTrip ==
    \A pos \in 0 .. (PIPE_BUFFER_SIZE - 1), n \in 1 .. Min({MaxIo, PIPE_BUFFER_SIZE}),
       src \in Sources :
        LET t == TtyPipeAt(pos)
            w == PipeWrite(t.k, t.addr, src, n)
            r == PipeRead(w.k, t.addr, n)
        IN w.val = n /\ r.val = n /\ r.out = Take(src, n)

\* The descriptor pairs <<read end, write end>> of the empty pipes of sys_pipe.
SysPipePairs ==
    {pr \in Slots \X Slots :
        /\ fd_table[pr[1]] # NULL /\ fd_table[pr[2]] # NULL
        /\ LiveObj(KState, fd_table[pr[1]], "fd") /\ LiveObj(KState, fd_table[pr[2]], "fd")
        /\ mem[fd_table[pr[1]]].type = FD_TYPE_PIPE
        /\ mem[fd_table[pr[2]]].type = FD_TYPE_PIPE
        /\ mem[fd_table[pr[1]]].flags = O_RDONLY
        /\ mem[fd_table[pr[2]]].flags = O_WRONLY
        /\ mem[fd_table[pr[1]]].private_data = mem[fd_table[pr[2]]].private_data
        /\ PayloadMatches(KState, mem[fd_table[pr[1]]])
        /\ mem[mem[fd_table[pr[1]]].private_data].data_size = 0}

C6_SysRoundTrip ==
    \A pr \in SysPipePairs, n \in 1 .. Min({MaxIo, SysPipeSize}), src \in Sources, c \in Bytes :
        LET w == SysWrite(KState, pr[2], src, n, TRUE)
            r == SysRead(w.k, pr[1], n, c, TRUE)
        IN w.val = n /\ r.val = n /\ r.out = Take(src, n)

C6_PipeRoundTrip == ~panic => (C6_TtyRoundTrip /\ C6_SysRoundTrip)

(***************************************************************************)
(* C7: a write to a pipe whose readers count is 0 returns -EPIPE (-32)     *)
(* and stores no byte; a read from an empty pipe after the last writer     *)
(* has been released returns 0.                                            *)
(***************************************************************************)
C7_WriteWithoutReaders ==
    (~panic /\ pipe # NULL) =>
        /\ mem[pipe].readers = 0 =>
              \A n \in 0 .. MaxIo, src \in Sources :
                  LET w == PipeWrite(KState, pipe, src, n)
                  IN w.val = 0 - EPIPE /\ w.k.mem = mem
        /\ (mem[pipe].count = 0 /\ mem[pipe].writers = 0 /\ mem[pipe].readers > 0
                /\ PIPE_STATE_EOF \in mem[pipe].state) =>
              \A n \in 0 .. MaxIo : PipeRead(KState, pipe, n).val = 0

(***************************************************************************)
(* C8 as stated: from A current with time_used 0 and B alone on the ready  *)
(* queue, both with time_slice 100, the processes that are current over    *)
(* 201 scheduler_tick calls are exactly A, B, A, B.                        *)
(***************************************************************************)
C8_FourRuns ==
    ticks = 2 * DEFAULT_TIME_SLICE + 1 => switches = <<1, 2, 1, 2>>

(***************************************************************************)
(* C8 amended: over the 201 calls the current processes are exactly        *)
(* A, B, A: A for calls 1..100, B for calls 101..200, A again from call    *)
(* 201 on.                                                                 *)
(***************************************************************************)
C8_ThreeRuns ==
    /\ (ticks >= 0 /\ ticks < DEFAULT_TIME_SLICE) => switches = <<1>>
    /\ (ticks >= DEFAULT_TIME_SLICE /\ ticks < 2 * DEFAULT_TIME_SLICE) => switches = <<1, 2>>
    /\ (ticks >= 2 * DEFAULT_TIME_SLICE /\ ticks <= 2 * DEFAULT_TIME_SLICE + 1) =>
           switches = <<1, 2, 1>>

\* The 201st call has run: A is current again, one tick into its slice.
C8_Witness ==
    /\ ticks = 2 * DEFAULT_TIME_SLICE + 1
    /\ ret.op = "scheduler_tick"
    /\ switches = <<1, 2, 1>>
    /\ mem[current_process].pid = 1
    /\ mem[current_process].time_used = 1

(***************************************************************************)
(* C9 as stated: for every reachable heap state and every n > 0 for which  *)
(* heap_alloc(n) succeeds, heap_free(heap_alloc(n)) leaves the block list  *)
(* and the five statistics counters as they were before the pair.          *)
(***************************************************************************)
\* heap_alloc(n) then heap_free of what it returned: [ptr, h].
AllocFreePair(n) ==
    Bind(HeapAlloc(HeapState, current_pml4, n), LAMBDA a :
        [ptr |-> a.ptr, h |-> HeapFree(a.h, a.ptr)])

\* The request sizes a pair is tried with in every state.  heap_alloc rounds
\* its argument up to a multiple of 8 before anything else, so the multiples
\* of 8 and one size that is rounded stand for every size up to MaxSize.
ProbeSizes == {n \in 1 .. MaxSize : n = 1 \/ n % 8 = 0}

C9_PairRestoresHeapAlways ==
    \A n \in ProbeSizes :
        LET p == AllocFreePair(n)
        IN p.ptr # NULL =>
            /\ p.h.blocks = heap_blocks
            /\ p.h.stats = heap_statistics

(***************************************************************************)
(* C9 amended: in every heap state reached by heap_alloc and heap_free of  *)
(* live pointers, when heap_alloc(n) is served from a block that is        *)
(* already free (the heap does not have to grow), heap_free(heap_alloc(n)) *)
(* leaves the block list and the five statistics counters as they were.    *)
(***************************************************************************)
C9_PairRestoresHeapUnlessGrown ==
    \A n \in ProbeSizes :
        LET p == AllocFreePair(n)
        IN (p.ptr # NULL /\ FindFreeBlock(heap_blocks, heap_start, Align8(n)) # NULL) =>
            /\ p.h.blocks = heap_blocks
            /\ p.h.stats = heap_statistics
            /\ p.h.vm = VmmState

\* A pointer was freed while another is held, in a heap of three or more
\* blocks that still has a free block a request can be served from.
C9_Witness ==
    /\ ret.op = "heap_free"
    /\ ret.val # NULL
    /\ held # {}
    /\ heap_statistics.total_blocks >= 3
    /\ FindFreeBlock(heap_blocks, heap_start, MinSize) # NULL

(***************************************************************************)
(* C10: from heap_init, after any number of pairs heap_alloc(s) then       *)
(* heap_free of the returned pointer, s in [8, 4096], used_size is 0,      *)
(* free_blocks is 1 and heap_check() returns true.                         *)
(***************************************************************************)
C10_PairsLeaveOneFreeBlock ==
    held = {} =>
        /\ heap_statistics.used_size = 0
        /\ heap_statistics.free_blocks = 1
        /\ HeapCheck(HeapState)

\* A pair whose heap_alloc had to grow the heap has completed.
C10_Witness ==
    /\ held = {}
    /\ ret.op = "heap_free"
    /\ ret.val # NULL
    /\ heap_statistics.total_size > HEAP_PAGE_SIZE

(***************************************************************************)
(* C11: the header in front of every non-NULL pointer heap_alloc(n)        *)
(* returned has the magic 0x1BADB002, is not marked FREE, and has a size   *)
(* of at least n rounded up to a multiple of 8 plus the size of a header.  *)
(***************************************************************************)
C11_ReturnedBlockHoldsRequest ==
    (ret.op = "heap_alloc" /\ ret.val # NULL) =>
        LET b == heap_blocks[ret.val - HEADER_SIZE]
            n == ret.out[1]
        IN /\ b.magic = HEAP_BLOCK_MAGIC
           /\ BLOCK_FREE \notin b.flags
           /\ b.size >= ((n + 7) \div 8) * 8 + HEADER_SIZE

(***************************************************************************)
(* C12: for every page v that a successful vmm_map_page mapped,            *)
(* vmm_unmap_page(v) returns true, vmm_get_phys_addr(v) then returns 0 and *)
(* every other page translates as before; and vmm_unmap_page(v) returns    *)
(* false exactly when no leaf mapping for v exists.                        *)
(***************************************************************************)
C12_UnmapAfterMap ==
    (current_pml4 # NULL /\ ~panic) =>
        \A v \in VirtAddrs :
            LET u == VmmUnmapPage(tables, current_pml4, v)
            IN /\ v \in DOMAIN mapped =>
                    /\ u.st = "ok"
                    /\ VmmGetPhysAddr(u.tables, current_pml4, v) = 0
                    /\ \A w \in VirtAddrs \ {v} :
                           VmmGetPhysAddr(u.tables, current_pml4, w) =
                               VmmGetPhysAddr(tables, current_pml4, w)
               /\ (StatusVal(u.st) = 0) <=> (v \notin DOMAIN mapped)

(***************************************************************************)
(* C13: a call pmm_alloc_pages(n) that returns NULL, as every call with n  *)
(* above the number of free frames does, leaves the bitmap and free_pages  *)
(* exactly as they were before the call.                                   *)
(***************************************************************************)
C13_FailedAllocLeavesState ==
    [][(ret'.op = "pmm_alloc_pages") =>
          /\ (ret'.out[1] > free_pages) => (ret'.val = NULL)
          /\ (ret'.val = NULL) => (bitmap' = bitmap /\ free_pages' = free_pages)]_vars

\* pmm_alloc_pages was asked for more frames than are free on an initialised
\* allocator that has free frames, and has returned NULL.
C13_Witness ==
    /\ total_pages > 0
    /\ ret.op = "pmm_alloc_pages"
    /\ ret.val = NULL
    /\ ret.out[1] > free_pages
    /\ free_pages > 0

(***************************************************************************)
(* C14: when the current process forks, sys_fork returns the pid of the    *)
(* child to it (pid 2 when pid 1 forks first), and sys_getppid executed by *)
(* the child returns the pid of the process that called sys_fork.  (The    *)
(* saved rax of the child lies in its cpu_state, which the model does not  *)
(* keep; line 638 of syscalls.c sets it to 0.)                             *)
(***************************************************************************)
\* The process_t with the given pid.
ProcessOf(m, pid) == CHOOSE a \in DOMAIN m : m[a].kind = "proc" /\ m[a].pid = pid

C14_ChildSeesParent ==
    (~panic /\ current_process # NULL /\ IsObj(mem, current_process, "proc")) =>
        LET r == SysFork(KState, FALSE)
            child == ProcessOf(r.k.mem, r.val)
        IN (r.val > 0 /\ ~r.k.panic) =>
              /\ r.val = next_pid
              /\ mem[current_process].pid = 1 => r.val = 2
              /\ SysGetppid(ProcessSwitch(r.k, child)) = mem[current_process].pid

(***************************************************************************)
(* C15: after a CPU exception raised while a process was current, that     *)
(* process is TERMINATED, a process that was ready has been made current   *)
(* in its place, and the CPU is not halted for good.                       *)
(***************************************************************************)
C15_ExceptionTerminatesProcess ==
    (ret.op = "exception_handler_common" /\ ret.out[1] # NULL) =>
        /\ mem[ret.out[1]].state = PROCESS_STATE_TERMINATED
        /\ ret.out[2] # NULL => current_process = ret.out[2]
        /\ ~halted

(***************************************************************************)
(* C16: while a process exists and none has closed a descriptor, the slots *)
(* 0, 1 and 2 of the descriptor table are populated, a write to fd 1 or 2  *)
(* is not rejected with -EBADF, and a sys_open that succeeds returns a     *)
(* descriptor of at least 3.                                               *)
(***************************************************************************)
C16_ConsoleDescriptorsPresent ==
    (~panic /\ process_count > 0) =>
        /\ \A fd \in {STDIN_FILENO, STDOUT_FILENO, STDERR_FILENO} :
               fd \in Slots /\ fd_table[fd] # NULL
        /\ \A fd \in {STDOUT_FILENO, STDERR_FILENO} :
               SysWrite(KState, fd, <<1, 2>>, 1, TRUE).val # 0 - EBADF
        /\ (ret.op = "sys_open" /\ ret.val >= 0) => ret.val >= 3

(***************************************************************************)
(* C17: a system call with a pointer argument that is NULL or not present  *)
(* in the caller's address space returns -EFAULT (-14); the pointer is not *)
(* dereferenced (no fault, no halt) and the kernel's state is unchanged.   *)
(***************************************************************************)
C17_BadPointerIsEfault ==
    [][(ret'.op = "syscall_handler") =>
          /\ ret'.val = 0 - EFAULT
          /\ ~halted' /\ ~panic'
          /\ UNCHANGED <<pmm_vars, mem, fd_vars, proc_vars>>]_vars

(***************************************************************************)
(* The physical allocator on several processors.  pmm.c takes no lock (the *)
(* spinlock of smp.c has no caller), so the loads and stores of            *)
(* pmm_alloc_page and pmm_alloc_pages of one processor interleave with     *)
(* those of another.  calls[c] is the call processor c is in: its position *)
(* and its locals.                                                         *)
(***************************************************************************)
CPUs == 1 .. MAX_CPUS

IdleCall ==
    [pc |-> "idle", fn |-> "none", count |-> 0, page |-> 0, i |-> 0, word |-> << >>,
     fp |-> 0, addr |-> NULL]

\* The call of processor c returns addr.
CallReturns(c, addr) == [calls EXCEPT ![c].pc = "done", ![c].addr = addr]

\* The pages of the bitmap word that holds page.
WordOf(page) == {p \in BitmapBits : p \div BITS_PER_ENTRY = page \div BITS_PER_ENTRY}

smp_frame == <<vmm_vars, mem, fd_vars, proc_vars, hist_vars, acpi, tty_vars, heap_vars, halted, panic>>

\* pmm_alloc_pages, its first two lines: the test of count against
\* free_pages, and the hand-over to pmm_alloc_page when count is 1.
cpu_pmm_alloc_pages ==
    \E c \in CPUs, count \in 0 .. MaxCount :
        /\ calls[c].pc \in {"idle", "done"}
        /\ Counted
        /\ calls' =
             IF count = 0 \/ count > free_pages
             THEN [calls EXCEPT ![c] = [IdleCall EXCEPT !.pc = "done", !.fn = "pmm_alloc_pages",
                                                       !.count = count]]
             ELSE [calls EXCEPT ![c] = [IdleCall EXCEPT
                                           !.pc = IF count = 1 THEN "enter" ELSE "scan",
                                           !.fn = "pmm_alloc_pages", !.count = count]]
        /\ ret' = RetOut("cpu_pmm_alloc_pages", c, <<count>>)
        /\ UNCHANGED <<pmm_vars, smp_frame>>

\* pmm_alloc_page, its first line: the test of free_pages, of a direct call
\* or of the call pmm_alloc_pages makes for one page.
cpu_pmm_alloc_page ==
    \E c \in CPUs, direct \in BOOLEAN :
        /\ IF direct THEN calls[c].pc \in {"idle", "done"} /\ Counted
                     ELSE calls[c].pc = "enter" /\ UNCHANGED budget
        /\ LET call == IF direct THEN [IdleCall EXCEPT !.fn = "pmm_alloc_page", !.count = 1]
                                 ELSE calls[c]
           IN calls' = [calls EXCEPT ![c] =
                           IF free_pages = 0 THEN [call EXCEPT !.pc = "done", !.addr = NULL]
                                             ELSE [call EXCEPT !.pc = "scan"]]
        /\ ret' = RetOut("cpu_pmm_alloc_page", c, <<direct>>)
        /\ UNCHANGED <<pmm_vars, smp_frame>>

\* The loops that read the bitmap and pick the page, or the first page of
\* the run: those of PmmAllocPage for one page, of PmmAllocPages for more.
cpu_scan ==
    \E c \in CPUs :
        /\ calls[c].pc = "scan"
        /\ LET count == calls[c].count
               clear == {p \in ScanPages(PmmState) : ~bitmap_test(bitmap, p)}
               runs == {s \in ScanPages(PmmState) :
                          /\ s + count - 1 < total_pages
                          /\ (s \div BITS_PER_ENTRY) = ((s + count - 1) \div BITS_PER_ENTRY)
                          /\ \A q \in s .. (s + count - 1) : ~bitmap_test(bitmap, q)}
               found == IF count = 1
                        THEN (IF clear = {} THEN {} ELSE {Min(clear)} \cap (0 .. total_pages - 1))
                        ELSE (IF runs = {} THEN {} ELSE {Min(runs)})
           IN calls' = IF found = {} THEN CallReturns(c, NULL)
                       ELSE [calls EXCEPT ![c].pc = "set_load", ![c].page = Min(found),
                                          ![c].i = 0]
        /\ ret' = Ret("cpu_scan", c)
        /\ UNCHANGED <<pmm_vars, smp_frame, budget>>

\* bitmap_set, the load of bitmap[page / BITS_PER_ENTRY].
cpu_bitmap_set_load ==
    \E c \in CPUs :
        /\ calls[c].pc = "set_load"
        /\ calls' = [calls EXCEPT ![c].pc = "set_store",
                                  ![c].word = [p \in WordOf(calls[c].page + calls[c].i) |->
                                                  bitmap[p]]]
        /\ ret' = Ret("cpu_bitmap_set_load", c)
        /\ UNCHANGED <<pmm_vars, smp_frame, budget>>

\* bitmap_set, the store of the loaded word with the bit of the page set.
cpu_bitmap_set_store ==
    \E c \in CPUs :
        /\ calls[c].pc = "set_store"
        /\ LET call == calls[c]
               page == call.page + call.i
           IN /\ bitmap' = [p \in BitmapBits |->
                               IF p \in DOMAIN call.word THEN (call.word[p] \/ p = page)
                                                         ELSE bitmap[p]]
              /\ calls' = [calls EXCEPT ![c].i = call.i + 1,
                                        ![c].pc = IF call.i + 1 < call.count THEN "set_load"
                                                                            ELSE "dec_load"]
        /\ ret' = Ret("cpu_bitmap_set_store", c)
        /\ UNCHANGED <<bitmap_size, total_pages, free_pages, smp_frame, budget>>

\* free_pages-- and free_pages -= count, the load of free_pages.
cpu_free_pages_load ==
    \E c \in CPUs :
        /\ calls[c].pc = "dec_load"
        /\ calls' = [calls EXCEPT ![c].pc = "dec_store", ![c].fp = free_pages]
        /\ ret' = Ret("cpu_free_pages_load", c)
        /\ UNCHANGED <<pmm_vars, smp_frame, budget>>

\* free_pages-- and free_pages -= count, the store, and the return of the
\* address of the page.
cpu_free_pages_store ==
    \E c \in CPUs :
        /\ calls[c].pc = "dec_store"
        /\ free_pages' = SizeT(calls[c].fp - calls[c].count)
        /\ calls' = CallReturns(c, calls[c].page * PAGE_SIZE)
        /\ ret' = Ret("cpu_free_pages_store", c)
        /\ UNCHANGED <<bitmap, bitmap_size, total_pages, smp_frame, budget>>

\* The processors after pmm_init ran on the first of them; MAX_CPUS + 1 calls
\* are followed, so that one processor makes a second call while another is
\* in its first.
InitSmp ==
    /\ \E memmap \in MemMaps : \E pm \in {PmmInit(memmap)} :
          /\ bitmap = pm.bitmap
          /\ bitmap_size = pm.bitmap_size
          /\ total_pages = pm.total_pages
          /\ free_pages = pm.free_pages
    /\ VmmBoot /\ KernelBoot
    /\ ticks = 0 - 1
    /\ acpi = AcpiStatics(NoFirmware)
    /\ switches = << >>
    /\ lineage = NoLineage
    /\ pipe = NULL
    /\ heap_start = NULL
    /\ heap_blocks = << >>
    /\ heap_statistics = ZeroStats
    /\ held = {}
    /\ halted = FALSE
    /\ calls = [c \in CPUs |-> IdleCall]
    /\ budget = MAX_CPUS + 1
    /\ panic = FALSE
    /\ ret = Ret("boot", 0)

NextSmp ==
    \/ cpu_pmm_alloc_page
    \/ cpu_pmm_alloc_pages
    \/ cpu_scan
    \/ cpu_bitmap_set_load
    \/ cpu_bitmap_set_store
    \/ cpu_free_pages_load
    \/ cpu_free_pages_store

SpecSmp == InitSmp /\ [][NextSmp]_vars

\* The pages the finished call of processor c was given.
FramesOf(c) ==
    IF calls[c].pc = "done" /\ calls[c].addr # NULL
    THEN (calls[c].addr \div PAGE_SIZE) .. (calls[c].addr \div PAGE_SIZE + calls[c].count - 1)
    ELSE {}

\* C18: when processors run pmm_alloc_page / pmm_alloc_pages at the same
\* time, with their loads and stores interleaved, no two of them are given
\* the same frame, and once every call has returned free_pages is the number
\* of clear bits of the bitmap.
C18_ConcurrentAllocsDisjoint ==
    /\ \A c, d \in CPUs : (c # d) => (FramesOf(c) \cap FramesOf(d) = {})
    /\ (\A c \in CPUs : calls[c].pc \in {"idle", "done"}) =>
           (free_pages = Cardinality(ClearBits))

(***************************************************************************)
(* The ready queue under the timer interrupt.  process.c masks no          *)
(* interrupt and takes no lock, so scheduler_tick may run between any two  *)
(* statements of a scheduler_add, scheduler_remove or scheduler_next that  *)
(* the interrupted code is in.  calls[1] is that call: its position, its   *)
(* locals, and in held the processes the interrupted code keeps outside    *)
(* the queue (created and not yet added, or taken off by it).              *)
(***************************************************************************)
NoCall(own) ==
    [fn |-> "none", pc |-> "idle", process |-> NULL, prev |-> NULL, next |-> NULL,
     held |-> own]

\* The value of p->next, or WILD when p is no process.
NextOf(k, p) == IF IsObj(k.mem, p, "proc") THEN k.mem[p].next ELSE WILD

\* One statement of scheduler_add(call.process): [k, call].
StepSchedulerAdd(k, call) ==
    LET p == call.process
        at(pc) == [k |-> k, call |-> [call EXCEPT !.pc = pc]]
        done(k1) == [k |-> k1, call |-> NoCall(call.held \ {p})]
    IN CASE call.pc = "state" ->
                [at("next") EXCEPT !.k.mem[p].state = PROCESS_STATE_READY]
         [] call.pc = "next" ->
                [at("test") EXCEPT !.k.mem[p].next = NULL]
         [] call.pc = "test" ->
                IF k.ready_queue_tail = NULL THEN at("first") ELSE at("link")
         [] call.pc = "first" ->
                done([k EXCEPT !.ready_queue_tail = p, !.ready_queue_head = p])
         [] call.pc = "link" ->
                IF ~IsObj(k.mem, k.ready_queue_tail, "proc") THEN done(Panic(k))
                ELSE [at("tail") EXCEPT !.k.mem[k.ready_queue_tail].next = p]
         [] call.pc = "tail" ->
                done([k EXCEPT !.ready_queue_tail = p])

\* One statement of scheduler_next(): [k, call]; the process it returns
\* joins call.held.
StepSchedulerNext(k, call) ==
    LET at(pc) == [k |-> k, call |-> [call EXCEPT !.pc = pc]]
        done(k1, r) == [k |-> k1, call |-> NoCall(call.held \cup (r \ {NULL}))]
    IN CASE call.pc = "take" ->
                [at("advance") EXCEPT !.call.next = k.ready_queue_head]
         [] call.pc = "advance" ->
                IF NextOf(k, k.ready_queue_head) = WILD THEN done(Panic(k), {})
                ELSE [at("test") EXCEPT !.k.ready_queue_head = NextOf(k, k.ready_queue_head)]
         [] call.pc = "test" ->
                IF k.ready_queue_head = NULL THEN at("tail") ELSE at("clear")
         [] call.pc = "tail" ->
                [at("clear") EXCEPT !.k.ready_queue_tail = NULL]
         [] call.pc = "clear" ->
                IF ~IsObj(k.mem, call.next, "proc") THEN done(Panic(k), {})
                ELSE done([k EXCEPT !.mem[call.next].next = NULL], {call.next})

\* One statement of scheduler_remove(call.process): [k, call]; the process
\* joins call.held unless it is the running one or is in the queue when the
\* call returns.
StepSchedulerRemove(k, call) ==
    LET p == call.process
        at(pc) == [k |-> k, call |-> [call EXCEPT !.pc = pc]]
        done(k1) ==
            [k |-> k1,
             call |-> NoCall(call.held \cup
                               ({p} \ (Chain(k1.mem, k1.ready_queue_head, {})
                                         \cup {k1.current_process})))]
    IN CASE call.pc = "head" ->
                [at("test") EXCEPT !.k.ready_queue_head = k.mem[p].next]
         [] call.pc = "test" ->
                IF k.ready_queue_head = NULL THEN at("tail") ELSE at("clear")
         [] call.pc = "tail" ->
                [at("clear") EXCEPT !.k.ready_queue_tail = NULL]
         [] call.pc = "prev" ->
                [at("while") EXCEPT !.call.prev = k.ready_queue_head]
         [] call.pc = "while" ->
                IF call.prev # NULL /\ NextOf(k, call.prev) = WILD THEN done(Panic(k))
                ELSE IF call.prev # NULL /\ NextOf(k, call.prev) # p
                THEN [at("while") EXCEPT !.call.prev = NextOf(k, call.prev)]
                ELSE IF call.prev # NULL THEN at("unlink") ELSE at("clear")
         [] call.pc = "unlink" ->
                [at("last") EXCEPT !.k.mem[call.prev].next = k.mem[p].next]
         [] call.pc = "last" ->
                IF k.ready_queue_tail = p
                THEN [at("clear") EXCEPT !.k.ready_queue_tail = call.prev]
                ELSE at("clear")
         [] call.pc = "clear" ->
                done([k EXCEPT !.mem[p].next = NULL])

irq_frame == <<vmm_vars, hist_vars, acpi, tty_vars, heap_vars, budget, halted>>

\* The interrupted code runs a call to the end or to the next statement.
Proceed(r) ==
    /\ SetK(r.k)
    /\ calls' = <<r.call>>
    /\ UNCHANGED irq_frame

\* scheduler_add(child) as sys_fork calls it, on a process the caller holds:
\* the call and its test of the argument, or the next statement of the call.
step_scheduler_add ==
    /\ ~panic
    /\ \/ /\ calls[1].pc = "idle"
          /\ \E process \in calls[1].held :
                Proceed([k |-> KState,
                         call |-> [calls[1] EXCEPT !.fn = "scheduler_add", !.pc = "state",
                                                   !.process = process]])
       \/ /\ calls[1].fn = "scheduler_add"
          /\ Proceed(StepSchedulerAdd(KState, calls[1]))
    /\ ret' = Ret("step_scheduler_add", 0)

\* scheduler_next() as sys_exit calls it: the call and its test of
\* ready_queue_head, or the next statement of the call.
step_scheduler_next ==
    /\ ~panic
    /\ \/ /\ calls[1].pc = "idle"
          /\ Proceed([k |-> KState,
                      call |-> IF ready_queue_head = NULL THEN calls[1]
                               ELSE [calls[1] EXCEPT !.fn = "scheduler_next", !.pc = "take"]])
       \/ /\ calls[1].fn = "scheduler_next"
          /\ Proceed(StepSchedulerNext(KState, calls[1]))
    /\ ret' = Ret("step_scheduler_next", 0)

\* scheduler_remove(process) as sys_exit and process_destroy call it, on the
\* running process or one of the queue: the call and its test
\* "ready_queue_head == process", or the next statement of the call.
step_scheduler_remove ==
    /\ ~panic
    /\ \/ /\ calls[1].pc = "idle"
          /\ \E process \in (ReadyQueue \cup {current_process}) \ {NULL} :
                Proceed([k |-> KState,
                         call |-> [calls[1] EXCEPT
                                      !.fn = "scheduler_remove",
                                      !.pc = IF ready_queue_head = process THEN "head"
                                                                           ELSE "prev",
                                      !.process = process]])
       \/ /\ calls[1].fn = "scheduler_remove"
          /\ Proceed(StepSchedulerRemove(KState, calls[1]))
    /\ ret' = Ret("step_scheduler_remove", 0)

\* The kernel with MAX_PROCESSES processes from process_create: the first
\* made current by process_switch, of the others the caller holds some and
\* has handed the rest to scheduler_add.
RECURSIVE CreateAll(_, _)
CreateAll(k, n) == IF n = 0 THEN k ELSE CreateAll(ProcessCreate(k, 1).k, n - 1)

RECURSIVE AddAll(_, _)
AddAll(k, ps) ==
    IF ps = {} THEN k ELSE AddAll(SchedulerAdd(k, Min(ps)), ps \ {Min(ps)})

InitIrq ==
    \E k0 \in {CreateAll(BootK, MAX_PROCESSES)} :
      \E first \in {a \in DOMAIN k0.mem : k0.mem[a].kind = "proc"} :
        \E queued \in SUBSET ({a \in DOMAIN k0.mem : k0.mem[a].kind = "proc"} \ {first}) :
          /\ InitK(AddAll(ProcessSwitch(k0, first), queued))
          /\ VmmBoot
          /\ ticks = 0 - 1
          /\ acpi = AcpiStatics(NoFirmware)
          /\ switches = << >>
          /\ lineage = NoLineage
          /\ pipe = NULL
          /\ heap_start = NULL
          /\ heap_blocks = << >>
          /\ heap_statistics = ZeroStats
          /\ held = {}
          /\ halted = FALSE
          /\ calls = <<NoCall(({a \in DOMAIN k0.mem : k0.mem[a].kind = "proc"} \ {first})
                              \ queued)>>
          /\ budget = 0 - 1
          /\ ret = Ret("boot", 0)

NextIrq ==
    \/ step_scheduler_add
    \/ step_scheduler_next
    \/ step_scheduler_remove
    \/ scheduler_tick

SpecIrq == InitIrq /\ [][NextIrq]_vars

\* The links from p end at NULL without passing a process twice.
RECURSIVE EndsAtNull(_, _, _)
EndsAtNull(m, p, seen) ==
    IF p = NULL THEN TRUE
    ELSE IF p \in seen \/ ~IsObj(m, p, "proc") THEN FALSE
    ELSE EndsAtNull(m, m[p].next, seen \cup {p})

\* C19: with scheduler_tick running between the statements of
\* scheduler_add, scheduler_remove and scheduler_next, the ready queue is
\* well formed whenever no such call is under way: no process is lost (each
\* is running, queued or held by the code that took it), none is there
\* twice, and ready_queue_tail is the last process reachable from
\* ready_queue_head.
C19_ReadyQueueWellFormed ==
    (calls[1].pc = "idle") =>
        /\ ~panic
        /\ EndsAtNull(mem, ready_queue_head, {})
        /\ (ready_queue_head = NULL) <=> (ready_queue_tail = NULL)
        /\ ready_queue_tail # NULL =>
               (ready_queue_tail \in ReadyQueue /\ mem[ready_queue_tail].next = NULL)
        /\ \A p \in Procs : p \in ReadyQueue \cup {current_process} \cup calls[1].held
        /\ current_process \notin ReadyQueue
        /\ calls[1].held \cap (ReadyQueue \cup {current_process}) = {}

\* C20: for every open descriptor oldfd and every newfd of the table, newfd =
\* oldfd and an open newfd included, sys_dup2(oldfd, newfd) returns newfd, and
\* afterwards both slots are populated with descriptors of the same type that
\* refer to the same payload.
C20_Dup2SharesPayload ==
    ~panic =>
        \A oldfd \in Slots, newfd \in Slots, garbage \in Garbage :
            ValidFd(KState, oldfd) =>
                LET r == SysDup2(KState, oldfd, newfd, garbage)
                    old == r.k.fd_table[oldfd]
                    new == r.k.fd_table[newfd]
                IN /\ r.val = newfd
                   /\ ~r.k.panic
                   /\ old # NULL /\ new # NULL
                   /\ r.k.mem[new].type = r.k.mem[old].type
                   /\ r.k.mem[new].private_data = r.k.mem[old].private_data

\* The net_socket that slot i refers to, or NULL when the slot holds no
\* socket descriptor.
SocketOf(i) ==
    IF fd_table[i] # NULL /\ IsObj(mem, fd_table[i], "fd")
          /\ mem[fd_table[i]].type = FD_TYPE_SOCKET
          /\ IsObj(mem, mem[fd_table[i]].private_data, "sock")
    THEN mem[fd_table[i]].private_data ELSE NULL

\* C21: no two populated slots that distinct sys_socket calls produced
\* (their net_socket structures differ) refer to the same index of
\* socket_pool: each open socket is owned by one entry of the table.
C21_SocketOwnedOnce ==
    ~panic =>
        \A i, j \in Slots :
            (i # j /\ SocketOf(i) # NULL /\ SocketOf(j) # NULL /\ SocketOf(i) # SocketOf(j)) =>
                mem[SocketOf(i)].fd # mem[SocketOf(j)].fd

(***************************************************************************)
(* sys_mmap (anonymous mappings) and sys_munmap, core/syscalls.c.          *)
(***************************************************************************)
PROT_READ == 1
PROT_WRITE == 2
PROT_EXEC == 4

\* PAGE_ALIGN of pmm.h
PageAlign(x) == ((x + PAGE_SIZE - 1) \div PAGE_SIZE) * PAGE_SIZE

\* prot & bit, for a bit that is a power of two
HasBit(prot, bit) == (prot \div bit) % 2 = 1

\* The page_flags sys_mmap computes from prot.
MmapPageFlags(prot) ==
    {PTE_PRESENT, PTE_USER}
        \cup (IF HasBit(prot, PROT_WRITE) THEN {PTE_WRITABLE} ELSE {})
        \cup (IF HasBit(prot, PROT_EXEC) THEN {} ELSE {PTE_NX})

\* The rollback loop of sys_mmap: vmm_unmap_page of the pages 0 .. i-1; the
\* frames stay allocated.  [st, tables]
RECURSIVE MmapRollback(_, _, _, _, _)
MmapRollback(tbls, root, addr, j, i) ==
    IF j >= i THEN [st |-> "nomem", tables |-> tbls]
    ELSE LET u == VmmUnmapPage(tbls, root, addr + j * PAGE_SIZE)
         IN IF u.st = "fault" THEN [st |-> "fault", tables |-> tbls]
            ELSE MmapRollback(u.tables, root, addr, j + 1, i)

\* The mapping loop of sys_mmap from page i on: [st, vm, frames]; frames are
\* the data frames taken so far, in page order.
RECURSIVE MmapLoop(_, _, _, _, _, _, _)
MmapLoop(vm, root, addr, i, n, flags, frames) ==
    IF i >= n THEN [st |-> "ok", vm |-> vm, frames |-> frames]
    ELSE LET p == PmmAllocPage(vm.pm)
             m == VmmMapPage([vm EXCEPT !.pm = p.pm], root, addr + i * PAGE_SIZE,
                             p.addr, flags)
             failed == IF p.addr = NULL THEN vm ELSE m.vm
             back == MmapRollback(failed.tables, root, addr, 0, i)
         IN IF p.addr # NULL /\ m.st = "fault"
            THEN [st |-> "fault", vm |-> m.vm, frames |-> frames]
            ELSE IF p.addr = NULL \/ m.st # "ok"
            THEN [st |-> back.st, vm |-> [failed EXCEPT !.tables = back.tables],
                  frames |-> frames]
            ELSE MmapLoop(m.vm, root, addr, i + 1, n, flags, Append(frames, p.addr))

\* sys_mmap(addr, length, prot, MAP_ANONYMOUS, ...):
\* [st, val, vm, next, frames]; val is the address returned or a negative
\* errno, next the new next_mmap_addr, st "fault" a walk through a pointer
\* that holds no table.
SysMmap(vm, root, next, addr, length, prot) ==
    LET len == PageAlign(length)
        base == PageAlign(IF addr = NULL THEN next ELSE addr)
        next1 == IF addr = NULL THEN next + len ELSE next
        r == MmapLoop(vm, root, base, 0, len \div PAGE_SIZE, MmapPageFlags(prot), << >>)
    IN IF length = 0
       THEN [st |-> "inval", val |-> 0 - EINVAL, vm |-> vm, next |-> next, frames |-> << >>]
       ELSE [st |-> r.st, val |-> IF r.st = "ok" THEN base ELSE 0 - ENOMEM,
             vm |-> r.vm, next |-> next1, frames |-> r.frames]

\* The loop of sys_munmap from page i on: [st, vm].  pmm_free_page gets what
\* vmm_get_phys_addr returned.
RECURSIVE MunmapLoop(_, _, _, _, _)
MunmapLoop(vm, root, addr, i, n) ==
    IF i >= n THEN [st |-> "ok", vm |-> vm]
    ELSE LET phys_addr == VmmGetPhysAddr(vm.tables, root, addr + i * PAGE_SIZE)
             u == VmmUnmapPage(vm.tables, root, addr + i * PAGE_SIZE)
         IN IF phys_addr = FAULT \/ (phys_addr # 0 /\ u.st = "fault")
            THEN [st |-> "fault", vm |-> vm]
            ELSE IF phys_addr = 0 THEN MunmapLoop(vm, root, addr, i + 1, n)
            ELSE MunmapLoop([tables |-> u.tables, pm |-> PmmFreePage(vm.pm, phys_addr)],
                            root, addr, i + 1, n)

\* sys_munmap(addr, length): [st, val, vm]
SysMunmap(vm, root, addr, length) ==
    LET r == MunmapLoop(vm, root, addr, 0, PageAlign(length) \div PAGE_SIZE)
    IN IF addr = NULL \/ length = 0 THEN [st |-> "inval", val |-> 0 - EINVAL, vm |-> vm]
       ELSE [st |-> r.st, val |-> 0, vm |-> r.vm]

\* The lengths and the prot words a caller passes: a part of a page, a page,
\* and two pages; every combination of PROT_WRITE and PROT_EXEC.
MmapLengths == {0, 1, PAGE_SIZE, PAGE_SIZE + 1}
MmapProts == {PROT_READ, PROT_READ + PROT_WRITE, PROT_READ + PROT_EXEC,
              PROT_READ + PROT_WRITE + PROT_EXEC}

\* The history of mappings in force after the pages of a range changed.
Remapped(tbls, root) ==
    LET live == {v \in DOMAIN mapped \cup {MMAP_BASE + i * PAGE_SIZE : i \in 0 .. TableEntries} :
                    VmmGetPhysAddr(tbls, root, v) \notin {0, FAULT}}
    IN [v \in live |-> VmmGetPhysAddr(tbls, root, v)]

sys_mmap ==
    /\ ~panic
    /\ current_pml4 # NULL
    /\ Counted
    /\ \E addr \in {NULL, MMAP_BASE}, length \in MmapLengths, prot \in MmapProts :
        \E r \in {SysMmap(VmmState, current_pml4, next_mmap_addr, addr, length, prot)} :
           /\ tables' = r.vm.tables
           /\ SetPmm(r.vm.pm)
           /\ next_mmap_addr' = r.next
           /\ mapped' = IF r.st = "fault" THEN mapped ELSE Remapped(r.vm.tables, current_pml4)
           /\ panic' = (r.st = "fault")
           /\ ret' = RetOut("sys_mmap", r.val, <<length, prot, r.frames>>)
    /\ UNCHANGED <<current_pml4, brk_vars, mem, fd_vars, proc_vars, hist_vars, acpi, tty_vars, heap_vars,
                   halted, calls>>

sys_munmap ==
    /\ ~panic
    /\ current_pml4 # NULL
    /\ Counted
    /\ \E addr \in {NULL, MMAP_BASE, MMAP_BASE + PAGE_SIZE}, length \in MmapLengths :
        \E r \in {SysMunmap(VmmState, current_pml4, addr, length)} :
           /\ tables' = r.vm.tables
           /\ SetPmm(r.vm.pm)
           /\ mapped' = IF r.st = "fault" THEN mapped ELSE Remapped(r.vm.tables, current_pml4)
           /\ panic' = (r.st = "fault")
           /\ ret' = RetOut("sys_munmap", r.val, <<addr, length>>)
    /\ UNCHANGED <<current_pml4, next_mmap_addr, brk_vars, mem, fd_vars, proc_vars, hist_vars, acpi, tty_vars,
                   heap_vars, halted, calls>>

\* The kernel after pmm_init and vmm_init; MaxCalls system calls are followed.
InitMmap ==
    /\ VmmReady /\ KernelBoot /\ OtherBoot
    /\ budget = MaxCalls
    /\ panic = FALSE
    /\ ret = Ret("boot", 0)

NextMmap ==
    \/ sys_mmap
    \/ sys_munmap

SpecMmap == InitMmap /\ [][NextMmap]_vars

\* C22: a successful anonymous sys_mmap of any length and prot, followed by
\* sys_munmap of the range it returned, leaves every page of the range
\* unmapped and every data frame the mmap took from the allocator free in
\* the bitmap.
C22_MunmapFreesFrames ==
    (current_pml4 # NULL /\ ~panic) =>
        \A addr \in {NULL, MMAP_BASE}, length \in MmapLengths \ {0}, prot \in MmapProts :
            LET m == SysMmap(VmmState, current_pml4, next_mmap_addr, addr, length, prot)
                u == SysMunmap(m.vm, current_pml4, m.val, length)
                n == PageAlign(length) \div PAGE_SIZE
            IN (m.st = "ok") =>
                  /\ u.st = "ok"
                  /\ \A i \in 0 .. (n - 1) :
                        VmmGetPhysAddr(u.vm.tables, current_pml4, m.val + i * PAGE_SIZE) = 0
                  /\ \A i \in 1 .. Len(m.frames) :
                        ~bitmap_test(u.vm.pm.bitmap, m.frames[i] \div PAGE_SIZE)

\* C23: pipe_read on an empty pipe that still has writers terminates: it
\* returns 0 and leaves count, the positions and the state flags as they
\* were.
C23_EmptyReadReturnsZero ==
    (~panic /\ pipe # NULL /\ IsObj(mem, pipe, "tpipe")
        /\ mem[pipe].count = 0 /\ mem[pipe].writers > 0) =>
        \A count \in 1 .. MaxIo :
            LET r == PipeRead(KState, pipe, count)
            IN /\ r.val = 0
               /\ ~r.k.panic
               /\ r.k.mem[pipe] = mem[pipe]

\* The pipe the caller holds has its end-of-stream flag set.
AtEof == pipe # NULL /\ IsObj(mem, pipe, "tpipe") /\ PIPE_STATE_EOF \in mem[pipe].state

\* C24: once the release of the last writer has set the end-of-stream flag
\* of a pipe, no call of pipe_add_writer, pipe_add_reader,
\* pipe_remove_reader, pipe_remove_writer, pipe_read or pipe_write clears it.
C24_EofIsSticky ==
    [][AtEof => AtEof']_vars

\* The flag is set and a writer was added afterwards.
C24_Witness ==
    /\ AtEof
    /\ mem[pipe].writers > 0
    /\ ret.op = "pipe_add_writer"

\* The first pages of the runs of count clear bits at page index >=
\* BITS_PER_ENTRY, wherever they lie in the bitmap.
ClearRuns(count) ==
    {s \in BitmapBits :
        /\ s >= BITS_PER_ENTRY
        /\ s + count - 1 < total_pages
        /\ \A q \in s .. (s + count - 1) : ~bitmap_test(bitmap, q)}

\* C25: pmm_alloc_pages(n) for n >= 2 returns the base of n consecutive
\* frames that were all free before the call and are all in use after it,
\* and it succeeds whenever a run of n consecutive clear bits exists at page
\* index >= BITS_PER_ENTRY, also when the run spans several bitmap words.
C25_AllocPagesFindsRun ==
    [][(ret'.op = "pmm_alloc_pages" /\ ret'.out[1] >= 2) =>
          LET n == ret'.out[1]
              first == ret'.val \div PAGE_SIZE
          IN /\ (ret'.val # NULL) =>
                    \A q \in first .. (first + n - 1) :
                        ~bitmap_test(bitmap, q) /\ bitmap_test(bitmap', q)
             /\ (ClearRuns(n) # {}) => (ret'.val # NULL)]_vars

\* The free frames pmm_alloc_page may hand out: clear bits at page index >=
\* BITS_PER_ENTRY.
FreeHigh == {p \in ClearBits : p >= BITS_PER_ENTRY}

\* C26: pmm_alloc_page returns the lowest free frame at page index >=
\* BITS_PER_ENTRY, marks it in use and takes exactly one off free_pages; it
\* never returns a frame below that index or one already in use, and it
\* returns NULL, changing nothing, exactly when no such frame is free.
C26_AllocPageLowestFree ==
    [][(ret'.op = "pmm_alloc_page") =>
          IF FreeHigh = {}
          THEN ret'.val = NULL /\ bitmap' = bitmap /\ free_pages' = free_pages
          ELSE /\ ret'.val = Min(FreeHigh) * PAGE_SIZE
               /\ bitmap' = bitmap_set(bitmap, Min(FreeHigh))
               /\ free_pages' = free_pages - 1]_vars

\* pmm_alloc_page returned a frame while lower frames were in use and while
\* frames of the first bitmap word were free.
C26_Witness ==
    /\ ret.op = "pmm_alloc_page"
    /\ ret.val > BITS_PER_ENTRY * PAGE_SIZE
    /\ \E p \in ClearBits : p < BITS_PER_ENTRY
    /\ \E p \in ClearBits : p > ret.val \div PAGE_SIZE

\* C27: after every scheduler_tick call the time_used of the current process
\* is below its time_slice: reaching the slice resets the counter whatever
\* the ready queue holds, an empty queue included.
C27_TickKeepsUsedBelowSlice ==
    [][(ret'.op = "scheduler_tick" /\ ~panic' /\ current_process' # NULL) =>
          mem'[current_process'].time_used < mem'[current_process'].time_slice]_vars

(***************************************************************************)
(* process_destroy, core/process.c.                                        *)
(***************************************************************************)
\* process_destroy: scheduler_remove, the removal from process_list (the
\* same loop as in scheduler_remove, over the same next links), then the
\* stack and the control block go back to the allocator.
ProcessDestroy(k, process) ==
    IF process = NULL THEN k
    ELSE Bind(SchedulerRemove(k, process), LAMBDA k1 :
         IF k1.panic THEN k1
         ELSE LET prev == FindPrev(k1.mem, k1.process_list, process, {})
                  k2 == IF k1.process_list = process
                        THEN [k1 EXCEPT !.process_list = k1.mem[process].next]
                        ELSE IF prev = NULL THEN k1
                        ELSE [k1 EXCEPT !.mem[prev].next = k1.mem[process].next]
              IN IF k1.process_list # process /\ prev \in {HANG, WILD} THEN Panic(k1)
                 ELSE [Free([k2 EXCEPT !.pm = PmmFreePage(k2.pm, k2.mem[process].stack)],
                            process)
                          EXCEPT !.process_count = k2.process_count - 1])

\* The processes that were created and not destroyed: their control block
\* is in a frame that is still allocated.
LiveProcs == {a \in Procs : bitmap_test(bitmap, a \div PAGE_SIZE)}

process_destroy ==
    /\ ~panic
    /\ ~halted
    /\ \E process \in LiveProcs \cup {NULL} :
        /\ SetK(ProcessDestroy(KState, process))
        /\ ret' = RetOut("process_destroy", 0, <<process>>)
    /\ UNCHANGED <<vmm_vars, other_vars>>

NextList ==
    \/ process_create
    \/ process_switch
    \/ scheduler_add
    \/ scheduler_next
    \/ scheduler_remove
    \/ scheduler_tick
    \/ sys_fork
    \/ process_destroy

SpecList == InitSched /\ [][NextList]_vars

\* C28: after any sequence of process_create, scheduler_add, scheduler_next,
\* scheduler_remove, scheduler_tick, sys_fork and process_destroy the process
\* list holds exactly the processes created and not yet destroyed, and
\* process_count is its length (so process_destroy(p) takes p and only p
\* off the list).
C28_ProcessListExact ==
    ~panic =>
        /\ EndsAtNull(mem, process_list, {})
        /\ Chain(mem, process_list, {}) = LiveProcs
        /\ process_count = Cardinality(LiveProcs)

\* ---------------------------------------------------------------------------
\* process_create: where the CPU-state snapshot and the initial stack pointer
\* are placed (process.c:53-69).
\* ---------------------------------------------------------------------------

\* #define STACK_SIZE 16384
STACK_SIZE == 16384

\* sizeof(cpu_state_t): twenty packed uint64_t fields.
SIZEOF_CPU_STATE == 160

\* sizeof(uint64_t), the element size of process_t.stack.
SIZEOF_UINT64 == 8

\* process->stack = pmm_alloc_page(): the bytes the PMM hands out for the stack.
StackBytes == PAGE_SIZE

\* process->cpu_state = (cpu_state_t*)(process->stack + STACK_SIZE - sizeof(cpu_state_t));
\* stack is a uint64_t *, so the offset counts elements of SIZEOF_UINT64 bytes.
CpuStateOf(stack) == stack + (STACK_SIZE - SIZEOF_CPU_STATE) * SIZEOF_UINT64

\* process->cpu_state->rsp = (uint64_t)(process->stack + STACK_SIZE);
InitialRsp(stack) == stack + STACK_SIZE * SIZEOF_UINT64

\* C29: for every process returned by process_create, the CPU-state snapshot
\* and the initial stack pointer lie inside the memory the PMM allocated as its
\* kernel stack: stack <= cpu_state, cpu_state + sizeof(cpu_state_t) <= rsp and
\* rsp <= stack + the number of bytes obtained from the PMM.
C29_SnapshotInsideStack ==
    (~panic /\ ret.op = "process_create" /\ ret.val # NULL) =>
        LET stack == mem[ret.val].stack
        IN /\ stack <= CpuStateOf(stack)
           /\ CpuStateOf(stack) + SIZEOF_CPU_STATE <= InitialRsp(stack)
           /\ InitialRsp(stack) <= stack + StackBytes

\* ---------------------------------------------------------------------------
\* heap_realloc (heap.c:193-229) and heap_check after it.
\* ---------------------------------------------------------------------------

\* heap_realloc: [h, ptr].  The memcpy moves payload bytes, which the block
\* headers and heap_statistics do not depend on.
HeapRealloc(h, root, ptr, size) ==
    LET block == ptr - HEADER_SIZE
        b == h.blocks[block]
        old_size == SizeT(b.size - HEADER_SIZE)
        next == b.next
    IN IF ptr = NULL THEN HeapAlloc(h, root, size)
       ELSE IF size = 0 THEN [h |-> HeapFree(h, ptr), ptr |-> NULL]
       ELSE IF block \notin DOMAIN h.blocks THEN [h |-> h, ptr |-> NULL]
       ELSE IF b.magic # HEAP_BLOCK_MAGIC THEN [h |-> h, ptr |-> NULL]
       ELSE IF size <= old_size THEN [h |-> SplitBlock(h, block, size), ptr |-> ptr]
       ELSE IF /\ next # NULL
               /\ BLOCK_FREE \in h.blocks[next].flags
               /\ SizeT(b.size + h.blocks[next].size) >= SizeT(size + HEADER_SIZE)
       THEN [h |-> Bind(MergeFreeBlocks(h, block), LAMBDA h1 : SplitBlock(h1, block, size)),
             ptr |-> ptr]
       ELSE Bind(HeapAlloc(h, root, size), LAMBDA a :
            IF a.ptr = NULL THEN [h |-> a.h, ptr |-> NULL]
            ELSE [h |-> HeapFree(a.h, ptr), ptr |-> a.ptr])

\* New sizes: 0 (a free), one below and one above the payload of a block of
\* HeapSizes, and one that only a grown heap can hold.
ReallocSizes == {0, MinSize + MinSize, HEAP_PAGE_SIZE \div 2 + MinSize, HEAP_PAGE_SIZE}

\* heap_realloc of NULL or of a pointer the caller holds.  On NULL with a
\* non-zero size the old block stays allocated.
heap_realloc ==
    /\ ~panic
    /\ Counted
    /\ \E ptr \in held \cup {NULL} :
       \E size \in ReallocSizes :
          /\ ptr = NULL => Cardinality(held) < MaxLive
          /\ \E r \in {HeapRealloc(HeapState, current_pml4, ptr, size)} :
                /\ SetHeap(r.h)
                /\ held' = IF r.ptr # NULL THEN (held \ {ptr}) \cup {r.ptr}
                           ELSE IF size = 0 THEN held \ {ptr}
                           ELSE held
                /\ ret' = RetOut("heap_realloc", r.ptr, <<ptr, size>>)
    /\ UNCHANGED <<current_pml4, mapped, next_mmap_addr, brk_vars, mem, fd_vars, proc_vars, hist_vars, acpi,
                   tty_vars, halted, calls, panic>>

\* heap_alloc, heap_free and heap_realloc from heap_init.
NextHeapRealloc ==
    \/ heap_alloc
    \/ heap_free
    \/ heap_realloc

\* calls of heap_realloc followed among any number of heap_alloc and heap_free
MaxReallocs == 2

InitHeapRealloc == HeapReady(MaxReallocs)

SpecHeapRealloc == InitHeapRealloc /\ [][NextHeapRealloc]_vars

\* C30: after heap_init and any sequence of heap_alloc, heap_free of live
\* pointers and heap_realloc, heap_check() returns true: every block carries
\* the magic, the next/prev links are reciprocal and the five counters of
\* heap_statistics equal the values recomputed by the walk.
C30_HeapCheckHolds ==
    (~panic /\ heap_start # NULL) => HeapCheck(HeapState)

\* C31: every non-NULL pointer returned by heap_alloc or heap_realloc is a
\* multiple of 8, for every request size and every reachable heap state.
C31_PointersAligned8 ==
    (ret.op \in {"heap_alloc", "heap_realloc"} /\ ret.val # NULL) => ret.val % 8 = 0

\* ---------------------------------------------------------------------------
\* vmm_init (vmm.c:61-135) on the page tables the bootloader hands over.
\* ---------------------------------------------------------------------------

\* #define IDENTITY_MAP_SIZE 0x100000: 256 pages, half of what one page table
\* covers.
IDENTITY_MAP_SIZE == (TableEntries \div 2) * PAGE_SIZE

\* The span vmm_init maps for the kernel image (0x1000000 in vmm.c:92): a
\* whole number of page tables.
KERNEL_MAP_SIZE == TableEntries * PAGE_SIZE

\* What one PML4 entry covers.
Pml4Span == TableEntries * TableEntries * TableEntries * PAGE_SIZE

\* hhdm_request.response->offset: the direct map lies under its own PML4 entry.
HhdmOffset == 2 * Pml4Span

\* kernel_address_request.response: the image is linked under the last PML4
\* entry and loaded at frame 2.
KernelVirt == (TableEntries - 1) * Pml4Span
KernelPhys == 2 * PAGE_SIZE

\* cr3 & ~0xFFF when the kernel is entered: the bootloader's root table, in a
\* frame below the ones the allocator hands out.
BootRoot == PAGE_SIZE

BootEntry(addr) == PageEntry(addr, {PTE_PRESENT, PTE_WRITABLE})

\* Page tables a bootloader may hand over: a root without entries, a root
\* that covers the lowest addresses (with an empty PDPT, and with a PDPT and
\* a page directory), and a root that covers only the kernel's half.
BootLayouts ==
    { PutKey(<< >>, BootRoot, ZeroTable),
      PutKey(PutKey(<< >>, BootRoot, [ZeroTable EXCEPT ![0] = BootEntry(2 * PAGE_SIZE)]),
             2 * PAGE_SIZE, ZeroTable),
      PutKey(PutKey(PutKey(<< >>, BootRoot,
                           [ZeroTable EXCEPT ![0] = BootEntry(2 * PAGE_SIZE)]),
                    2 * PAGE_SIZE, [ZeroTable EXCEPT ![0] = BootEntry(3 * PAGE_SIZE)]),
             3 * PAGE_SIZE, ZeroTable),
      PutKey(PutKey(<< >>, BootRoot,
                    [ZeroTable EXCEPT ![TableEntries - 1] = BootEntry(2 * PAGE_SIZE)]),
             2 * PAGE_SIZE, ZeroTable) }

\* for (off = 0; off < size; off += PAGE_SIZE) vmm_map_page(virt + off, phys + off, ...):
\* the return value of vmm_map_page is not looked at.
RECURSIVE MapRange(_, _, _, _, _, _)
MapRange(vm, root, virt, phys, off, size) ==
    IF off >= size THEN vm
    ELSE Bind(VmmMapPage(vm, root, virt + off, phys + off, {PTE_PRESENT, PTE_WRITABLE}).vm,
              LAMBDA vm1 : MapRange(vm1, root, virt, phys, off + PAGE_SIZE, size))

\* The nested loops that map every table under new_pml4 at its direct-map
\* address: entries index .. of the table tbl of the given level (4 the new
\* root, 3 a PDPT, 2 a page directory).  The entries are read as the loop
\* reaches them.
RECURSIVE MapTables(_, _, _, _, _)
MapTables(vm, root, tbl, level, index) ==
    IF index >= TableEntries \/ tbl \notin DOMAIN vm.tables THEN vm
    ELSE LET e == vm.tables[tbl][index]
             child == EntryAddr(e)
         IN IF ~IsPresent(e) THEN MapTables(vm, root, tbl, level, index + 1)
            ELSE Bind(VmmMapPage(vm, root, HhdmOffset + child, child,
                                 {PTE_PRESENT, PTE_WRITABLE}).vm, LAMBDA vm1 :
                 Bind(IF level > 2 THEN MapTables(vm1, root, child, level - 1, 0) ELSE vm1,
                      LAMBDA vm2 : MapTables(vm2, root, tbl, level, index + 1)))

\* vmm_init: [vm, root, ok]; every vmm_map_page goes through current_pml4,
\* which is the bootloader's root until the last statement.
VmmInit(vm, cr3) ==
    Bind(CreatePageTable(vm), LAMBDA c :
    IF c.addr = NULL THEN [vm |-> vm, root |-> cr3, ok |-> FALSE]
    ELSE LET new_pml4 == c.addr
             copied == [c.vm EXCEPT !.tables[new_pml4] = c.vm.tables[cr3]]
         IN Bind(MapRange(copied, cr3, 0, 0, 0, IDENTITY_MAP_SIZE), LAMBDA vm1 :
            Bind(MapRange(vm1, cr3, KernelVirt, KernelPhys, 0, KERNEL_MAP_SIZE), LAMBDA vm2 :
            Bind(VmmMapPage(vm2, cr3, HhdmOffset + new_pml4, new_pml4,
                            {PTE_PRESENT, PTE_WRITABLE}).vm, LAMBDA vm3 :
            [vm |-> MapTables(vm3, cr3, new_pml4, 4, 0), root |-> new_pml4, ok |-> TRUE]))))

\* vmm_init, called once from kmain after pmm_init.
vmm_init ==
    /\ ~panic
    /\ current_pml4 = NULL
    /\ \E r \in {VmmInit(VmmState, BootRoot)} :
          /\ tables' = r.vm.tables
          /\ SetPmm(r.vm.pm)
          /\ current_pml4' = r.root
          /\ mapped' = [v \in {x \in VirtAddrs :
                                    VmmGetPhysAddr(r.vm.tables, r.root, x) \notin {0, FAULT}}
                            |-> VmmGetPhysAddr(r.vm.tables, r.root, v)]
          /\ panic' = FALSE
          /\ ret' = Ret("vmm_init", IF r.ok THEN 1 ELSE 0)
    /\ UNCHANGED <<next_mmap_addr, brk_vars, mem, fd_vars, proc_vars, other_vars>>

\* Entered from the bootloader: pmm_init has run, CR3 holds BootRoot.
InitBoot ==
    /\ \E layout \in BootLayouts : tables = layout
    /\ \E pm \in {PmmInit(BootMap)} :
          /\ bitmap = pm.bitmap
          /\ bitmap_size = pm.bitmap_size
          /\ total_pages = pm.total_pages
          /\ free_pages = pm.free_pages
    /\ current_pml4 = NULL
    /\ mapped = << >>
    /\ next_mmap_addr = MMAP_BASE
    /\ program_break = NULL
    /\ initial_break = NULL
    /\ KernelBoot /\ OtherBoot
    /\ budget = 0 - 1
    /\ panic = FALSE
    /\ ret = Ret("boot", 0)

NextBoot ==
    \/ vmm_init
    \/ vmm_map_page
    \/ vmm_unmap_page
    \/ vmm_get_phys_addr

SpecBoot == InitBoot /\ [][NextBoot]_vars

\* The MMU's translation of the page-aligned address a under root is a.
IdentityMapped(tbls, root, a) ==
    LET w == Walk(tbls, root, a, 4)
    IN /\ w.st = "ok"
       /\ IsPresent(tbls[w.tbl][PageIndex(a, 1)])
       /\ EntryAddr(tbls[w.tbl][PageIndex(a, 1)]) = a

\* C32: after vmm_init completes, for whatever page tables the bootloader
\* handed over, every page-aligned address a in [0, 1 MiB) translates to a in
\* the address space whose root vmm_init loaded into CR3.
C32_LowMemoryIdentityMapped ==
    (ret.op = "vmm_init" /\ ret.val = 1) =>
        \A p \in 0 .. (IDENTITY_MAP_SIZE \div PAGE_SIZE - 1) :
            IdentityMapped(tables, current_pml4, p * PAGE_SIZE)

\* ---------------------------------------------------------------------------
\* Hardware interrupts: exception_handler_common for a vector of 32 and above
\* (idt.c:141-144) with the handlers kmain's initialisation registers.
\* ---------------------------------------------------------------------------
IRQ0 == 32
IRQ1 == 33
IRQ8 == 40
IRQ12 == 44

\* interrupt_handlers[] after kmain: idt_init stores NULL in every entry
\* (idt.c:72) and the only register_interrupt_handler calls are those of the
\* keyboard, the RTC and the mouse driver.  pit_init registers nothing.
NO_HANDLER == "NULL"

InterruptHandlers ==
    [vector \in {IRQ0, IRQ1, IRQ8, IRQ12} |->
        CASE vector = IRQ1 -> "keyboard_handler"
          [] vector = IRQ8 -> "rtc_handler"
          [] vector = IRQ12 -> "mouse_interrupt_handler"
          [] OTHER -> NO_HANDLER]

\* keyboard_handler, rtc_handler and mouse_interrupt_handler read their device
\* and leave the processes and the ready queue alone.
DeviceHandler(k) == k

\* exception_handler_common for a vector of 32 and above: the registered
\* handler runs, if there is one.
InterruptHandlerCommon(k, vector) ==
    IF InterruptHandlers[vector] = NO_HANDLER THEN k ELSE DeviceHandler(k)

\* The timer raises IRQ0.
timer_interrupt ==
    /\ ~panic
    /\ ~halted
    /\ SetK(InterruptHandlerCommon(KState, IRQ0))
    /\ ret' = Ret("interrupt", IRQ0)
    /\ UNCHANGED <<vmm_vars, other_vars>>

NextTimer ==
    \/ process_create
    \/ process_switch
    \/ scheduler_add
    \/ timer_interrupt

SpecTimer == InitSched /\ [][NextTimer]_vars

\* C33: after kmain's initialisation every timer interrupt (IRQ0, vector 32)
\* causes exactly one scheduler_tick call: the current process's time_used
\* advances by one per timer interrupt and the ready queue is rotated when it
\* reaches time_slice.
C33_TimerDrivesScheduler ==
    [][(ret'.op = "interrupt" /\ ret'.val = IRQ0) => KState' = SchedulerTick(KState)]_vars

\* ---------------------------------------------------------------------------
\* acpi_init and the MADT getters on the tables a firmware may leave.
\* ---------------------------------------------------------------------------

\* madt->local_apic_address as the firmware wrote it.
MadtLapicAddress == 16 * PAGE_SIZE

\* What an XSDT or RSDT may list: the MADT alone, behind the MCFG, or not at all.
SdtEntries == { <<"madt">>, <<"mcfg", "madt">>, <<"mcfg">>, << >> }

\* Firmware memory: an RSDP with a good or bad signature, of revision 0 or 2,
\* with or without the address of an XSDT and of an RSDT; the XSDT, the RSDT
\* and the MADT each with a byte sum of 0 or not.
Firmwares ==
    { [rsdp |-> "rsdp", signature_ok |-> s, revision |-> r,
       xsdt_address |-> xa, rsdt_address |-> ra,
       tables |-> [n \in {"xsdt", "rsdt", "madt", "mcfg"} |->
           CASE n = "xsdt" -> AcpiTable("XSDT", xs, e, 0)
             [] n = "rsdt" -> AcpiTable("RSDT", rs, e, 0)
             [] n = "madt" -> AcpiTable(ACPI_MADT_SIGNATURE, ms, << >>, MadtLapicAddress)
             [] n = "mcfg" -> AcpiTable(ACPI_MCFG_SIGNATURE, 0, << >>, 0)]] :
      s \in BOOLEAN, r \in {0, 2}, xa \in {NO_TABLE, "xsdt"}, ra \in {NO_TABLE, "rsdt"},
      xs \in {0, 1}, rs \in {0, 1}, ms \in {0, 1}, e \in SdtEntries }
    \cup {NoFirmware}

acpi_frame ==
    <<pmm_vars, vmm_vars, mem, fd_vars, proc_vars, hist_vars, tty_vars, heap_vars, budget,
      halted, calls, panic>>

acpi_init ==
    /\ acpi' = AcpiInit(acpi)
    /\ ret' = Ret("acpi_init", 0)
    /\ UNCHANGED acpi_frame

acpi_find_table ==
    /\ \E signature \in {ACPI_MADT_SIGNATURE, ACPI_MCFG_SIGNATURE} :
          ret' = RetOut("acpi_find_table", 0, <<AcpiFindTable(acpi, signature)>>)
    /\ UNCHANGED <<acpi, acpi_frame>>

acpi_get_madt ==
    /\ ret' = RetOut("acpi_get_madt", 0, <<AcpiGetMadt(acpi)>>)
    /\ UNCHANGED <<acpi, acpi_frame>>

acpi_get_local_apic_address ==
    /\ ret' = Ret("acpi_get_local_apic_address", AcpiGetLocalApicAddress(acpi))
    /\ UNCHANGED <<acpi, acpi_frame>>

\* kmain before acpi_init, on any of the firmwares.
InitAcpi ==
    /\ \E fw \in Firmwares : acpi = AcpiStatics(fw)
    /\ InitK(BootK)
    /\ VmmBoot
    /\ ticks = 0 - 1
    /\ switches = << >>
    /\ lineage = NoLineage
    /\ halted = FALSE
    /\ calls = << >>
    /\ pipe = NULL
    /\ heap_start = NULL
    /\ heap_blocks = << >>
    /\ heap_statistics = ZeroStats
    /\ held = {}
    /\ budget = 0 - 1
    /\ ret = Ret("boot", 0)

NextAcpi ==
    \/ acpi_init
    \/ acpi_find_table
    \/ acpi_get_madt
    \/ acpi_get_local_apic_address

SpecAcpi == InitAcpi /\ [][NextAcpi]_vars

\* The table acpi_init is to look in: the XSDT of a revision-2 RSDP when its
\* checksum is right, else the RSDT when its checksum is right.
UsableSdt(fw) ==
    IF fw.revision >= 2 /\ fw.xsdt_address # NO_TABLE /\ ValidateTable(fw, fw.xsdt_address)
    THEN fw.xsdt_address
    ELSE IF fw.rsdt_address # NO_TABLE /\ ValidateTable(fw, fw.rsdt_address)
    THEN fw.rsdt_address
    ELSE NO_TABLE

\* The first checksum-valid table with signature "APIC" that table lists.
ListedMadt(fw) == FindTableSdt(fw, UsableSdt(fw), ACPI_MADT_SIGNATURE)

\* C34: after acpi_init runs on an RSDP with a valid signature whose XSDT
\* (or, failing that, RSDT) passes its checksum and lists a checksum-valid
\* table with signature "APIC", acpi_get_madt() returns that table and
\* acpi_get_local_apic_address() returns its Local APIC address.
C34_MadtFound ==
    (/\ ret.op = "acpi_init"
     /\ acpi.fw.rsdp # NO_TABLE
     /\ acpi.fw.signature_ok
     /\ ListedMadt(acpi.fw) # NO_TABLE) =>
        /\ AcpiGetMadt(acpi) = ListedMadt(acpi.fw)
        /\ AcpiGetLocalApicAddress(acpi) = acpi.fw.tables[ListedMadt(acpi.fw)].local_apic_address

\* ---------------------------------------------------------------------------
\* Descriptors across sys_fork and sys_exit, with the record of who forked
\* whom and who opened which slot.
\* ---------------------------------------------------------------------------

\* The children the process with this pid has forked so far.
ChildrenOf(pid) ==
    IF pid \in DOMAIN lineage.forked THEN lineage.forked[pid] ELSE {}

\* sys_fork; the child's pid is recorded under the pid of its parent.
sys_fork_recorded ==
    /\ ~panic
    /\ ~halted
    /\ Counted
    /\ next_pid <= MaxPid
    /\ RefsBelow(MaxRef)
    /\ \E fault \in BOOLEAN : \E r \in {SysFork(KState, fault)} :
          /\ SetK(r.k)
          /\ lineage' =
                IF r.val > 0
                THEN [lineage EXCEPT !.forked =
                         PutKey(@, mem[current_process].pid,
                                ChildrenOf(mem[current_process].pid) \cup {r.val})]
                ELSE lineage
          /\ ret' = Ret("sys_fork", r.val)
    /\ UNCHANGED <<vmm_vars, ticks, switches, acpi, tty_vars, heap_vars, halted, calls>>

\* sys_open; the slot is recorded with the pid of the caller and the children
\* the caller has forked before.
sys_open_recorded ==
    /\ ~panic
    /\ ~halted
    /\ Counted
    /\ current_process # NULL
    /\ \E r \in {SysOpen(KState, 2, FALSE, O_RDONLY)} :
          /\ SetK(r.k)
          /\ lineage' =
                IF r.val >= 0
                THEN [lineage EXCEPT !.opened =
                         PutKey(@, r.val,
                                [by |-> mem[current_process].pid,
                                 children |-> ChildrenOf(mem[current_process].pid)])]
                ELSE lineage
          /\ ret' = Ret("sys_open", r.val)
    /\ UNCHANGED <<vmm_vars, ticks, switches, acpi, tty_vars, heap_vars, halted, calls>>

\* Processes that fork, open files, are switched to and exit.
NextOwner ==
    \/ sys_fork_recorded
    \/ sys_open_recorded
    \/ process_switch
    \/ sys_exit

SpecOwner == InitFd /\ [][NextOwner]_vars

\* C35: file descriptors are per process: a descriptor that process A opens
\* after forking child B stays open in A when B calls sys_exit.
C35_ExitKeepsParentDescriptors ==
    [][(ret'.op = "sys_exit" /\ current_process # NULL) =>
          \A i \in Slots :
              (/\ fd_table[i] # NULL
               /\ i \in DOMAIN lineage.opened
               /\ mem[current_process].pid \in lineage.opened[i].children)
              => fd_table'[i] = fd_table[i]]_vars

\* ---------------------------------------------------------------------------
\* Round robin under timer ticks that never stop: processes are created,
\* queued once and never exit.
\* ---------------------------------------------------------------------------

\* The frames a process_t can lie in.
ProcFrames == {f * PAGE_SIZE : f \in BITS_PER_ENTRY .. (TotalPages - 1)}

\* scheduler_add of a process that was created and not queued before.
scheduler_add_new ==
    /\ ~panic
    /\ ~halted
    /\ \E process \in Procs :
        /\ mem[process].state = PROCESS_STATE_NEW
        /\ process # current_process
        /\ SetK(SchedulerAdd(KState, process))
        /\ ret' = Ret("scheduler_add", 0)
    /\ UNCHANGED <<vmm_vars, other_vars>>

\* process_switch to a new process while no process is current.
process_switch_first ==
    /\ ~panic
    /\ ~halted
    /\ current_process = NULL
    /\ \E next \in Procs :
        /\ mem[next].state = PROCESS_STATE_NEW
        /\ SetK(ProcessSwitch(KState, next))
        /\ ret' = Ret("process_switch", 0)
    /\ UNCHANGED <<vmm_vars, other_vars>>

\* scheduler_tick from the timer.  With nothing queued, the ticks of a
\* process that has overrun its slice by MaxOverrun are no longer followed
\* until a process is queued.
scheduler_tick_forever ==
    /\ ~panic
    /\ ~halted
    /\ (current_process # NULL /\ ready_queue_head = NULL) =>
           mem[current_process].time_used < mem[current_process].time_slice + MaxOverrun
    /\ SetK(SchedulerTick(KState))
    /\ ret' = Ret("scheduler_tick", 0)
    /\ UNCHANGED <<vmm_vars, other_vars>>

NextRoundRobin ==
    \/ process_create
    \/ sys_fork
    \/ scheduler_add_new
    \/ process_switch_first
    \/ scheduler_tick_forever

\* The timer keeps ticking: a tick that changes something is not put off
\* forever.
SpecRoundRobin ==
    InitSched /\ [][NextRoundRobin]_vars /\ WF_vars(scheduler_tick_forever)

\* C36: with timer ticks occurring forever and no process exiting, every
\* process that is on the ready queue eventually becomes the current
\* process, and processes become current in the order in which they were
\* enqueued (FIFO round-robin, no starvation).
C36_NoStarvation ==
    /\ \A p \in ProcFrames : (p \in ReadyQueue) ~> (current_process = p)
    /\ [][(ret'.op = "scheduler_tick" /\ current_process' # current_process) =>
             current_process' = ready_queue_head]_vars

\* The scheduler's calls on processes that process_create returned.
NextQueue ==
    \/ process_create
    \/ process_switch
    \/ scheduler_add
    \/ scheduler_remove
    \/ scheduler_next
    \/ scheduler_tick

SpecQueue == InitSched /\ [][NextQueue]_vars

\* C37: after any sequence of scheduler_add, scheduler_remove,
\* scheduler_next, scheduler_tick and process_switch calls on created
\* processes (scheduler_add of a queued or of the current process included)
\* the ready queue is an acyclic chain from ready_queue_head that ends at
\* ready_queue_tail and holds each process at most once, and head and tail
\* are both NULL exactly when it is empty.
C37_ReadyQueueIsChain ==
    ~panic =>
        /\ EndsAtNull(mem, ready_queue_head, {})
        /\ (ready_queue_head = NULL) <=> (ready_queue_tail = NULL)
        /\ ready_queue_tail # NULL =>
               /\ ready_queue_tail \in ReadyQueue
               /\ mem[ready_queue_tail].next = NULL

\* Processes that exit while others are created, queued and rotated by the
\* timer: sys_exit halts its CPU in a hlt loop, which interrupts still leave.
NextExit ==
    \/ process_create
    \/ scheduler_add_new
    \/ process_switch_first
    \/ scheduler_tick
    \/ sys_exit

SpecExit == InitSched /\ [][NextExit]_vars

\* C38: once sys_exit has set a process to TERMINATED, no later
\* scheduler_tick places that process on the ready queue, gives it the state
\* READY or makes it the current process, whether or not the ready queue was
\* empty when it exited and whatever processes are added afterwards.
C38_TerminatedStaysOff ==
    [][(ret'.op = "scheduler_tick" /\ ~panic') =>
          \A p \in Procs :
              mem[p].state = PROCESS_STATE_TERMINATED =>
                  /\ mem'[p].state = PROCESS_STATE_TERMINATED
                  /\ p \notin ReadyQueue'
                  /\ current_process # p => current_process' # p]_vars

\* Slot i holds a descriptor of a pipe or a socket whose payload is intact.
HoldsPayload(k, i) ==
    /\ k.fd_table[i] # NULL
    /\ LiveObj(k, k.fd_table[i], "fd")
    /\ k.mem[k.fd_table[i]].type \in {FD_TYPE_PIPE, FD_TYPE_SOCKET}
    /\ PayloadMatches(k, k.mem[k.fd_table[i]])

\* C39: a payload (pipe buffer or socket) is torn down only when no populated
\* slot still points to it: a sys_close that leaves a slot populated leaves
\* the payload of that slot intact, so after sys_pipe closing one end keeps
\* the pipe usable through the other end, and after sys_dup closing one of
\* the two descriptors keeps the payload for the other.
C39_PayloadOutlivesSlots ==
    [][(ret'.op = "sys_close" /\ ~panic') =>
          \A i \in Slots :
              (HoldsPayload(KState, i) /\ fd_table'[i] = fd_table[i])
                  => HoldsPayload(KState', i)]_vars

(***************************************************************************)
(* sys_brk, core/syscalls.c.                                               *)
(***************************************************************************)
\* PTE_PRESENT | PTE_WRITABLE | PTE_USER
BrkPageFlags == {PTE_PRESENT, PTE_WRITABLE, PTE_USER}

\* The mapping loop of sys_brk from page i on, with its cleanup loop:
\* pmm_alloc_page and vmm_map_page of the pages from the break upwards; on a
\* failure vmm_unmap_page of the pages 0 .. i-1, whose frames stay
\* allocated.  [st, vm]
RECURSIVE BrkGrow(_, _, _, _, _)
BrkGrow(vm, root, break, i, pages_needed) ==
    IF i >= pages_needed THEN [st |-> "ok", vm |-> vm]
    ELSE LET p == PmmAllocPage(vm.pm)
             m == VmmMapPage([vm EXCEPT !.pm = p.pm], root, break + i * PAGE_SIZE,
                             p.addr, BrkPageFlags)
             failed == IF p.addr = NULL THEN vm ELSE m.vm
             back == MmapRollback(failed.tables, root, break, 0, i)
         IN IF p.addr # NULL /\ m.st = "fault"
            THEN [st |-> "fault", vm |-> m.vm]
            ELSE IF p.addr = NULL \/ m.st # "ok"
            THEN [st |-> back.st, vm |-> [failed EXCEPT !.tables = back.tables]]
            ELSE BrkGrow(m.vm, root, break, i + 1, pages_needed)

\* The freeing loop of sys_brk from page i on: the pages below the break,
\* downwards; a page that translates is unmapped and pmm_free_page gets what
\* vmm_get_phys_addr returned.  [st, vm]
RECURSIVE BrkShrink(_, _, _, _, _)
BrkShrink(vm, root, break, i, pages_to_free) ==
    IF i >= pages_to_free THEN [st |-> "ok", vm |-> vm]
    ELSE LET page_addr == break - (i + 1) * PAGE_SIZE
             phys_addr == VmmGetPhysAddr(vm.tables, root, page_addr)
             u == VmmUnmapPage(vm.tables, root, page_addr)
         IN IF phys_addr = FAULT \/ (phys_addr # 0 /\ u.st = "fault")
            THEN [st |-> "fault", vm |-> vm]
            ELSE IF phys_addr = 0 THEN BrkShrink(vm, root, break, i + 1, pages_to_free)
            ELSE BrkShrink([tables |-> u.tables, pm |-> PmmFreePage(vm.pm, phys_addr)],
                           root, break, i + 1, pages_to_free)

\* sys_brk(addr): [st, val, vm, break, set]; val is the pointer returned
\* ((void*)-1 is -1), break the new program_break, set the program_break
\* after the "if (!program_break)" at the top.
SysBrk(vm, root, break, addr) ==
    LET set == IF break = NULL THEN PageAlign(addr) ELSE break
        new_break == PageAlign(addr)
        g == BrkGrow(vm, root, set, 0, (new_break - set) \div PAGE_SIZE)
        s == BrkShrink(vm, root, set, 0, (set - new_break) \div PAGE_SIZE)
    IN IF addr = NULL
       THEN [st |-> "ok", val |-> set, vm |-> vm, break |-> set, set |-> set]
       ELSE IF new_break > set
       THEN IF g.st = "ok"
            THEN [st |-> "ok", val |-> new_break, vm |-> g.vm, break |-> new_break, set |-> set]
            ELSE [st |-> g.st, val |-> 0 - 1, vm |-> g.vm, break |-> set, set |-> set]
       ELSE IF new_break < set
       THEN [st |-> s.st, val |-> new_break, vm |-> s.vm, break |-> new_break, set |-> set]
       ELSE [st |-> "ok", val |-> set, vm |-> vm, break |-> set, set |-> set]

\* The addresses a caller passes to sys_brk: NULL, the page where the
\* mappings of sys_mmap begin, an address inside it, and two pages on.
BrkAddrs == {NULL, MMAP_BASE, MMAP_BASE + 1, MMAP_BASE + 2 * PAGE_SIZE}

sys_brk ==
    /\ ~panic
    /\ current_pml4 # NULL
    /\ Counted
    /\ \E addr \in BrkAddrs :
        \E r \in {SysBrk(VmmState, current_pml4, program_break, addr)} :
           /\ tables' = r.vm.tables
           /\ SetPmm(r.vm.pm)
           /\ program_break' = r.break
           /\ initial_break' = IF initial_break = NULL THEN r.set ELSE initial_break
           /\ mapped' = IF r.st = "fault" THEN mapped ELSE Remapped(r.vm.tables, current_pml4)
           /\ panic' = (r.st = "fault")
           /\ ret' = RetOut("sys_brk", r.val, <<addr>>)
    /\ UNCHANGED <<current_pml4, next_mmap_addr, mem, fd_vars, proc_vars, hist_vars, acpi,
                   tty_vars, heap_vars, halted, calls>>

\* A process that maps memory and moves its program break.
NextBrk ==
    \/ sys_mmap
    \/ sys_brk

SpecBrk == InitMmap /\ [][NextBrk]_vars

\* The pages of the address space a process of SpecBrk reaches.
BrkPages == {MMAP_BASE + i * PAGE_SIZE : i \in 0 .. TableEntries}

\* C40: sys_brk unmaps and frees only pages an earlier sys_brk mapped: for
\* every sequence of sys_brk calls with arbitrary addresses, no page below
\* the initial program break is unmapped or has its frame returned to the
\* PMM, and a failed call leaves program_break unchanged.
C40_BrkKeepsLowerPages ==
    [][(ret'.op = "sys_brk" /\ ~panic') =>
          /\ \A v \in BrkPages :
                 LET phys == VmmGetPhysAddr(tables, current_pml4, v)
                     frame == (phys % PTE_NX_BIT) \div PAGE_SIZE
                 IN (/\ initial_break' # NULL
                     /\ v < initial_break'
                     /\ phys \notin {0, FAULT}
                     /\ bitmap_test(bitmap, frame))
                    => /\ VmmGetPhysAddr(tables', current_pml4, v) = phys
                       /\ bitmap_test(bitmap', frame)
          /\ ret'.val = 0 - 1 => program_break' = program_break]_vars

=============================================================================
